---- MODULE Spec2Model ----
(***************************************************************************)
(* Model of the circuit-to-tensor compiler: the gate/circuit data model,   *)
(* Clifford extraction and partitioning, the block-merge optimizer, the    *)
(* CNOT+Phase canonicalizer, synthesis-matrix extraction, the phase        *)
(* polynomial algebra and the gadget pattern synthesizer.                  *)
(*                                                                         *)
(* Qubits are naturals counted from 0 as in the source.  A circuit is a    *)
(* sequence of gates (TLA+ sequences count from 1, so index i of the       *)
(* source is position i+1 here).  A boolean matrix is a record             *)
(* [n |-> rows, cols |-> sequence of columns], a column being a function   *)
(* from 0..n-1 to BOOLEAN.                                                 *)
(***************************************************************************)
EXTENDS Integers, Sequences, FiniteSets, TLC

VARIABLES
    pc,         \* position in the pipeline under analysis
    original,   \* the input circuit, as given
    gates,      \* Circuit.gates of the circuit being transformed
    front,      \* PartitionedCircuit.front
    back,       \* PartitionedCircuit.back
    blocks,     \* PartitionedCircuit.blocks
    blocks0,    \* the block list the last pick_gadgets call was given
    budget,     \* the budget the last pick_gadgets call was given
    ret,        \* the value the last call returned
    before,     \* Circuit.gates as they were when the last operation began
    xswaps,     \* the circuit Circuit::to_cnot_phase returned
    cliffords,  \* the Clifford block Circuit::extract_gadgets returned
    map,        \* the qubit map Circuit::extract_gadgets returned
    matrix,     \* the gate synthesis matrix
    circ1,      \* result of extract::extract_gadgets with gadgets enabled
    circ2,      \* result of extract::extract_gadgets with gadgets disabled
    orig,       \* the original matrix a decomposition is corrected against
    correction, \* the circuit extract::clifford_correction returned
    next_id,    \* the ancilla counter of the Hadamard gadgets
    ancillas,   \* the ancilla indices decomp_had allocated, in order
    corrections, \* the circuits Circuit::to_cnot_phase returned, block by block
    call,       \* what the last Hadamard-gadget call was given
    source,     \* the lines of a .qc text, each split at its blanks
    parsed,     \* what Circuit::from_qc returned for the text
    args,       \* the command line of compile::main
    circuits,   \* the parsed inputs compile::main has yet to process
    failed,     \* the flag the ZX pre-optimization sets when it gives up
    ran,        \* the stages run on the input being processed
    logfile,    \* the file statistics pushed to the log so far
    attempts,   \* the runs the search attempts of the last pick_gadgets call ended with
    extracted,  \* what PartitionedCircuit::extract_gadgets took out, block by block
    files,      \* the inputs resynth::main has yet to load
    values,     \* the inputs resynth::main loaded and accepted
    invocation, \* the command line of resynth::main and the inputs it names
    report,     \* the messages resynth::main printed, with the input each is about
    written     \* the circuits resynth::main wrote, with the input each is for

partVars == <<front, back, blocks, blocks0, budget, ret>>
canonVars == <<before, xswaps, cliffords, map, matrix, circ1, circ2>>
corrVars == <<orig, correction>>
hadVars == <<next_id, ancillas, corrections, call>>
qcVars == <<source, parsed>>
compVars == <<args, circuits, failed, ran, logfile>>
traceVars == <<attempts, extracted>>
resynthVars == <<invocation, files, values, report, written>>
lateVars == <<traceVars, resynthVars>>
auxVars == <<hadVars, qcVars, compVars, lateVars>>
vars == <<pc, original, gates, partVars, canonVars, corrVars, auxVars>>

------------------------------------------------------------------------------
(* Sequence helpers *)

Min(S) == CHOOSE x \in S : \A y \in S : x <= y

Reverse(s) == [i \in 1..Len(s) |-> s[Len(s) + 1 - i]]

RemoveAt(s, i) == SubSeq(s, 1, i - 1) \o SubSeq(s, i + 1, Len(s))

\* The loops over a gate list are folded over index ranges split in halves,
\* and the result of the first half is computed (CASE l = l) before the
\* second half is entered: this keeps the evaluation shallow, and the order
\* of the steps is the loop's.
Mid(lo, hi) == (lo + hi) \div 2

RECURSIVE ConcatRange(_, _, _)
ConcatRange(ss, lo, hi) ==
    IF lo > hi THEN << >>
    ELSE IF lo = hi THEN ss[lo]
    ELSE ConcatRange(ss, lo, Mid(lo, hi)) \o ConcatRange(ss, Mid(lo, hi) + 1, hi)

Concat(ss) == ConcatRange(ss, 1, Len(ss))

------------------------------------------------------------------------------
(* circuit.rs: phases and gates *)

PhaseZ == 4
PhaseS == 2
PhaseT == 1

PhaseIsClifford(p) == p % 2 = 0
PhaseNeg(p) == (8 - p) % 8
PhaseAdd(p, r) == (p + r) % 8
PhaseSub(p, r) == (p + 8 - r) % 8

X(q)          == [op |-> "X",     p |-> 0, qs |-> <<q>>]
CNOT(a, b)    == [op |-> "CNOT",  p |-> 0, qs |-> <<a, b>>]
Phase(p, q)   == [op |-> "Phase", p |-> p, qs |-> <<q>>]
CZ(a, b)      == [op |-> "CZ",    p |-> 0, qs |-> <<a, b>>]
CCZ(a, b, c)  == [op |-> "CCZ",   p |-> 0, qs |-> <<a, b, c>>]
CS(a, b)      == [op |-> "CS",    p |-> 0, qs |-> <<a, b>>]
SWAP(a, b)    == [op |-> "SWAP",  p |-> 0, qs |-> <<a, b>>]
H(q)          == [op |-> "H",     p |-> 0, qs |-> <<q>>]

IsClifford(g) ==
    CASE g.op = "X"     -> TRUE
      [] g.op = "CNOT"  -> TRUE
      [] g.op = "Phase" -> PhaseIsClifford(g.p)
      [] g.op = "CZ"    -> TRUE
      [] g.op = "CS"    -> FALSE
      [] g.op = "CCZ"   -> FALSE
      [] g.op = "SWAP"  -> TRUE
      [] g.op = "H"     -> TRUE

\* Gate::qubits: the three (possibly repeated) positions a gate touches
GateQubits(g) ==
    CASE g.op \in {"X", "Phase", "H"}            -> <<g.qs[1], g.qs[1], g.qs[1]>>
      [] g.op \in {"CNOT", "CZ", "CS", "SWAP"}   -> <<g.qs[1], g.qs[2], g.qs[2]>>
      [] g.op = "CCZ"                            -> <<g.qs[1], g.qs[2], g.qs[3]>>

Overlaps(g, other) ==
    \E i \in 1..3 : \E j \in 1..3 : GateQubits(g)[i] = GateQubits(other)[j]

\* Circuit::qubits: 0 for the empty circuit, else the largest index touched + 1
CircuitQubits(gs) ==
    IF Len(gs) = 0 THEN 0
    ELSE LET touched == UNION {{GateQubits(gs[i])[k] : k \in 1..3} : i \in 1..Len(gs)}
         IN  (CHOOSE m \in touched : \A y \in touched : y <= m) + 1

\* hadamard.rs: Circuit::count_hadamards
CountHadamards(gs) == Cardinality({i \in 1..Len(gs) : gs[i].op = "H"})

------------------------------------------------------------------------------
(* decompose.rs: Clifford extraction and partitioning *)

\* The functional-block predicate lets Hadamards through
PredAnyGate(pred, g) ==
    CASE pred = "is_clifford" -> IsClifford(g)
      [] pred = "not_h"       -> TRUE

\* The two predicates pull_gates is called with
Pred(pred, g) ==
    CASE pred = "is_clifford" -> IsClifford(g)
      [] pred = "not_h"       -> g.op # "H"

\* Eligible without the obstruction test
EligibleUnobstructed(self, pred, i) == Pred(pred, self[i])

\* A gate may be pulled when it satisfies the predicate and no earlier gate
\* of the remaining sequence overlaps it
Eligible(self, pred, i) ==
    /\ Pred(pred, self[i])
    /\ \A j \in 1..(i - 1) : ~Overlaps(self[i], self[j])

RECURSIVE PullLoop(_, _, _)
PullLoop(self, pred, pulled) ==
    LET elig == {i \in 1..Len(self) : Eligible(self, pred, i)}
    IN  IF elig = {} THEN [front |-> pulled, rest |-> self]
        ELSE LET i == Min(elig)
             IN  PullLoop(RemoveAt(self, i), pred, Append(pulled, self[i]))

\* Circuit::pull_gates: returns the pulled circuit and what is left of self
PullGates(self, pred) == PullLoop(self, pred, << >>)

\* extract_cliffords that forgets to reverse the gates pulled from the back
ExtractCliffordsBackReversed(self) ==
    LET f == PullGates(self, "is_clifford")
        b == PullGates(Reverse(f.rest), "is_clifford")
    IN  [front |-> f.front, back |-> b.front, rest |-> Reverse(b.rest)]

\* extract_cliffords that pulls from the front only
ExtractCliffordsFrontOnly(self) ==
    LET f == PullGates(self, "is_clifford")
    IN  [front |-> f.front, back |-> << >>, rest |-> f.rest]

\* Circuit::extract_cliffords
ExtractCliffords(self) ==
    LET f == PullGates(self, "is_clifford")
        b == PullGates(Reverse(f.rest), "is_clifford")
    IN  [front |-> f.front, back |-> Reverse(b.front), rest |-> Reverse(b.rest)]

RECURSIVE PartitionLoop(_, _)
PartitionLoop(self, bs) ==
    IF Len(self) = 0 THEN bs
    ELSE LET f == PullGates(self, "not_h")
         IN  IF Len(f.rest) = 0 THEN Append(bs, f.front)
             ELSE LET c == PullGates(f.rest, "is_clifford")
                  IN  PartitionLoop(c.rest, bs \o <<f.front, c.front>>)

\* Circuit::partition
Partition(self) ==
    LET e == ExtractCliffords(self)
    IN  [front |-> e.front, back |-> e.back, blocks |-> PartitionLoop(e.rest, << >>)]

\* PartitionedCircuit::merge
MergeAll(f, bs, b) == f \o Concat(bs) \o b

------------------------------------------------------------------------------
(* decompose.rs: the block-merge optimizer *)

\* (cost, start, end) of each block, start and end counted from 0
BlockCosts(bs) ==
    [i \in 1..Len(bs) |-> [cost |-> CountHadamards(bs[i]), a |-> i - 1, b |-> i]]

\* The junctions a search attempt looks at: the odd indices 1, 3, .., 2n-1
\* (source indices), n = run_blocks[1..].len() / 2
Junctions(run) == {2 * k - 1 : k \in 1..((Len(run) - 1) \div 2)}

\* The merge test without the cost of the Clifford block in the middle
AcceptableOuter(run, i, bud) == run[i].cost + run[i + 2].cost <= bud

\* run_blocks[i-1], [i] and [i+1] of the source are run[i], run[i+1], run[i+2]
Acceptable(run, i, bud) == run[i].cost + run[i + 1].cost + run[i + 2].cost <= bud

MergeAt(run, i) ==
    LET m == [cost |-> run[i].cost + run[i + 1].cost + run[i + 2].cost,
              a |-> run[i].a, b |-> run[i + 2].b]
    IN  SubSeq(run, 1, i - 1) \o <<m>> \o SubSeq(run, i + 3, Len(run))

\* One search attempt: the shuffled order makes any acceptable junction the
\* first one found; the attempt ends when none is acceptable
RECURSIVE Attempt(_, _)
Attempt(run, bud) ==
    LET ok == {i \in Junctions(run) : Acceptable(run, i, bud)}
    IN  IF ok = {} THEN {run}
        ELSE UNION {Attempt(MergeAt(run, i), bud) : i \in ok}

\* The attempts in sequence where an attempt that is no worse replaces the best
RECURSIVE SearchLastKept(_, _, _, _, _)
SearchLastKept(costs, bud, iters, best, tried) ==
    IF iters = 0 THEN {[best |-> best, tried |-> tried]}
    ELSE UNION {LET nb == IF Len(r) <= Len(best) THEN r ELSE best
                    t == Append(tried, r)
                IN  IF Len(nb) = 1 THEN {[best |-> nb, tried |-> t]}
                    ELSE SearchLastKept(costs, bud, iters - 1, nb, t)
                : r \in Attempt(costs, bud)}

\* The attempts in sequence: a strictly better attempt replaces the best,
\* and the search stops early at a single block.  tried lists the runs the
\* attempts ended with, in order.
RECURSIVE Search(_, _, _, _, _)
Search(costs, bud, iters, best, tried) ==
    IF iters = 0 THEN {[best |-> best, tried |-> tried]}
    ELSE UNION {LET nb == IF Len(r) < Len(best) THEN r ELSE best
                    t == Append(tried, r)
                IN  IF Len(nb) = 1 THEN {[best |-> nb, tried |-> t]}
                    ELSE Search(costs, bud, iters - 1, nb, t)
                : r \in Attempt(costs, bud)}

\* The new block list that keeps only the first block of each group
RegroupFirst(bs, best) ==
    [k \in 1..Len(best) |-> bs[best[k].a + 1]]

\* The new block list of a chosen grouping
Regroup(bs, best) ==
    [k \in 1..Len(best) |-> Concat(SubSeq(bs, best[k].a + 1, best[k].b))]

\* The searches a call can make: with at most one block it returns at once
PickSearch(bs, bud, iters) ==
    IF Len(bs) <= 1 THEN {[best |-> BlockCosts(bs), tried |-> << >>]}
    ELSE Search(BlockCosts(bs), bud, iters, BlockCosts(bs), << >>)

\* PartitionedCircuit::pick_gadgets: every block list the call can leave
PickGadgets(bs, bud, iters) ==
    {Regroup(bs, s.best) : s \in PickSearch(bs, bud, iters)}

------------------------------------------------------------------------------
(* decompose.rs: the CNOT+Phase canonicalizer *)

SymDiff(S, T) == (S \ T) \cup (T \ S)

\* Every order in which the elements of a set may be listed
Orderings(S) ==
    {f \in [1..Cardinality(S) -> S] : \A i, j \in 1..Cardinality(S) : f[i] = f[j] => i = j}

\* Templates whose CS sequence fires T instead of its inverse on the parity
TemplateCsOffset(g) ==
    LET a == g.qs[1]
        b == g.qs[2]
    IN  CASE g.op = "CZ" ->
               <<Phase(PhaseNeg(PhaseS), a), Phase(PhaseNeg(PhaseS), b), CNOT(a, b),
                 Phase(PhaseS, b), CNOT(a, b)>>
          [] g.op = "CS" ->
               <<CNOT(a, b), Phase(PhaseT, b), CNOT(a, b),
                 Phase(PhaseT, a), Phase(PhaseT, b)>>
          [] g.op = "SWAP" -> <<CNOT(a, b), CNOT(b, a), CNOT(a, b)>>
          [] OTHER -> <<g>>

\* The gates written in place of one gate by the first loop of to_cnot_phase
Template(g) ==
    LET a == g.qs[1]
        b == g.qs[2]
        c == g.qs[3]
    IN  CASE g.op = "CZ" ->
               <<Phase(PhaseNeg(PhaseS), a), Phase(PhaseNeg(PhaseS), b), CNOT(a, b),
                 Phase(PhaseS, b), CNOT(a, b)>>
          [] g.op = "CS" ->
               <<CNOT(a, b), Phase(PhaseNeg(PhaseT), b), CNOT(a, b),
                 Phase(PhaseT, a), Phase(PhaseT, b)>>
          [] g.op = "CCZ" ->
               <<CNOT(b, c), Phase(PhaseNeg(PhaseT), c), CNOT(a, c), Phase(PhaseT, c),
                 CNOT(b, c), Phase(PhaseNeg(PhaseT), c), CNOT(a, c), Phase(PhaseT, c),
                 Phase(PhaseT, b), CNOT(a, b), Phase(PhaseT, a),
                 Phase(PhaseNeg(PhaseT), b), CNOT(a, b)>>
          [] g.op = "SWAP" -> <<CNOT(a, b), CNOT(b, a), CNOT(a, b)>>
          [] OTHER -> <<g>>

\* First loop: from the last gate to the first, rewrite the gate at i in place
RECURSIVE Decompose(_, _)
Decompose(self, i) ==
    IF i = 0 THEN self
    ELSE LET next == SubSeq(self, 1, i - 1) \o Template(self[i])
                     \o SubSeq(self, i + 1, Len(self))
         IN  CASE next = next -> Decompose(next, i - 1)

\* One step of the propagation that leaves the phase it passes as it is
PropagateStepKeepPhase(self, j, set) ==
    LET g == self[j]
    IN  IF g.op = "CNOT" /\ g.qs[1] \in set
        THEN [gates |-> self, set |-> SymDiff(set, {g.qs[2]})]
        ELSE [gates |-> self, set |-> set]

\* One step of pushing a removed X through the gate at position j: a CNOT
\* whose control is in the set toggles its target, a Phase on a qubit of the
\* set is negated in place
PropagateStep(self, j, set) ==
    LET g == self[j]
    IN  CASE g.op = "CNOT" ->
               [gates |-> self,
                set |-> IF g.qs[1] \in set THEN SymDiff(set, {g.qs[2]}) ELSE set]
          [] g.op = "Phase" ->
               [gates |-> IF g.qs[1] \in set
                          THEN [self EXCEPT ![j] = Phase(PhaseNeg(g.p), g.qs[1])]
                          ELSE self,
                set |-> set]
          [] OTHER -> [gates |-> self, set |-> set]

\* The inner loop: the steps for j = lo, .., hi in this order
RECURSIVE PropagateX(_, _, _, _)
PropagateX(self, lo, hi, set) ==
    IF lo > hi THEN [gates |-> self, set |-> set]
    ELSE IF lo = hi THEN PropagateStep(self, lo, set)
    ELSE LET l == PropagateX(self, lo, Mid(lo, hi), set)
         IN  CASE l = l -> PropagateX(l.gates, Mid(lo, hi) + 1, hi, l.set)

\* The body of the second loop at position i: an X is removed and pushed
\* through every gate after it, and its final set is toggled into total_x
MoveX(self, i, total_x) ==
    IF self[i].op = "X"
    THEN LET r == PropagateX(RemoveAt(self, i), i, Len(self) - 1, {self[i].qs[1]})
         IN  [gates |-> r.gates, total_x |-> SymDiff(total_x, r.set)]
    ELSE [gates |-> self, total_x |-> total_x]

\* Second loop: the bodies for i = hi, .., lo in this (descending) order
RECURSIVE MoveXs(_, _, _, _)
MoveXs(self, lo, hi, total_x) ==
    IF lo > hi THEN [gates |-> self, total_x |-> total_x]
    ELSE IF lo = hi THEN MoveX(self, lo, total_x)
    ELSE LET u == MoveXs(self, Mid(lo, hi) + 1, hi, total_x)
         IN  CASE u = u -> MoveXs(u.gates, lo, Mid(lo, hi), u.total_x)

\* Circuit::to_cnot_phase: the rewritten gates and the set of trailing X
\* qubits; the returned circuit lists them in the hash set's iteration order
ToCnotPhase(self) ==
    LET d == Decompose(self, Len(self))
    IN  CASE d = d -> MoveXs(d, 1, Len(d), {})

------------------------------------------------------------------------------
(* Action of an H-free circuit on computational basis states: a bit per    *)
(* qubit and a phase in units of pi/4, mod 8.                              *)

Xor(u, v) == u # v

ApplyGate(g, st) ==
    LET x == st.x
        a == g.qs[1]
    IN  CASE g.op = "X" -> [st EXCEPT !.x[a] = ~x[a]]
          [] g.op = "CNOT" -> [st EXCEPT !.x[g.qs[2]] = Xor(x[g.qs[2]], x[a])]
          [] g.op = "Phase" -> [st EXCEPT !.ph = IF x[a] THEN (st.ph + g.p) % 8 ELSE st.ph]
          [] g.op = "CZ" ->
               [st EXCEPT !.ph = IF x[a] /\ x[g.qs[2]] THEN (st.ph + 4) % 8 ELSE st.ph]
          [] g.op = "CS" ->
               [st EXCEPT !.ph = IF x[a] /\ x[g.qs[2]] THEN (st.ph + 2) % 8 ELSE st.ph]
          [] g.op = "CCZ" ->
               [st EXCEPT !.ph = IF x[a] /\ x[g.qs[2]] /\ x[g.qs[3]]
                                 THEN (st.ph + 4) % 8 ELSE st.ph]
          [] g.op = "SWAP" ->
               [st EXCEPT !.x[a] = x[g.qs[2]], !.x[g.qs[2]] = x[a]]

\* The gates lo, .., hi applied in order
RECURSIVE RunRange(_, _, _, _)
RunRange(gs, lo, hi, st) ==
    IF lo > hi THEN st
    ELSE IF lo = hi THEN ApplyGate(gs[lo], st)
    ELSE LET l == RunRange(gs, lo, Mid(lo, hi), st)
         IN  CASE l = l -> RunRange(gs, Mid(lo, hi) + 1, hi, l)

Run(gs, x) == RunRange(gs, 1, Len(gs), [x |-> x, ph |-> 0])

BasisStates(w) == [0..(w - 1) -> BOOLEAN]

Width(c, d) == IF CircuitQubits(c) >= CircuitQubits(d) THEN CircuitQubits(c) ELSE CircuitQubits(d)

\* The same output bits and the same phase on every basis state
SameAction(c, d) ==
    \A x \in BasisStates(Width(c, d)) : Run(c, x) = Run(d, x)

\* The same output bits on every basis state, and phases that differ by one
\* constant: the same phase relative to the all-zero input
SameUpToGlobalPhase(c, d) ==
    LET w == Width(c, d)
        zero == [q \in 0..(w - 1) |-> FALSE]
        shift == (Run(d, zero).ph + 8 - Run(c, zero).ph) % 8
    IN  \A x \in BasisStates(w) :
            /\ Run(c, x).x = Run(d, x).x
            /\ (Run(c, x).ph + shift) % 8 = Run(d, x).ph

------------------------------------------------------------------------------
(* decompose.rs: synthesis-matrix extraction *)

\* The elements of a set of naturals in ascending order
RECURSIVE Ascending(_)
Ascending(S) == IF S = {} THEN << >> ELSE <<Min(S)>> \o Ascending(S \ {Min(S)})

IdentityRows(n) == [q \in 0..(n - 1) |-> [j \in 0..(n - 1) |-> q = j]]

\* Row addition that ORs the rows instead of adding them mod 2
XorRowOr(r, t) == [j \in DOMAIN r |-> r[j] \/ t[j]]

XorRow(r, t) == [j \in DOMAIN r |-> Xor(r[j], t[j])]

SetRows(parity) == {i \in DOMAIN parity : parity[i]}

\* A pass step that records the gadgets but ignores the CNOTs
TrackGateNoCnot(g, st) ==
    IF g.op = "Phase"
    THEN [st EXCEPT !.gadgets = Append(@, [phase |-> g.p, parity |-> st.rows[g.qs[1]]])]
    ELSE st

\* One step of the pass over the gates: a CNOT(a, b) adds row a to row b,
\* a Phase(p, q) records the gadget (p, row q)
TrackGate(g, st) ==
    CASE g.op = "CNOT" ->
           [st EXCEPT !.rows[g.qs[2]] = XorRow(st.rows[g.qs[2]], st.rows[g.qs[1]])]
      [] g.op = "Phase" ->
           [st EXCEPT !.gadgets = Append(@, [phase |-> g.p, parity |-> st.rows[g.qs[1]]])]
      [] OTHER -> st

\* The pass over the gates lo, .., hi in order
RECURSIVE TrackGadgets(_, _, _, _)
TrackGadgets(self, lo, hi, st) ==
    IF lo > hi THEN st
    ELSE IF lo = hi THEN TrackGate(self[lo], st)
    ELSE LET l == TrackGadgets(self, lo, Mid(lo, hi), st)
         IN  CASE l = l -> TrackGadgets(self, Mid(lo, hi) + 1, hi, l)

\* The local fn synth_gadget of Circuit::extract_gadgets
PhaseGadget(phase, parity) ==
    IF phase = 0 \/ SetRows(parity) = {} THEN << >>
    ELSE LET q == Min(SetRows(parity))
             others == Ascending(SetRows(parity) \ {q})
             fan == [k \in 1..Len(others) |-> CNOT(others[k], q)]
         IN  fan \o <<Phase(phase, q)>> \o Reverse(fan)

\* A gadget split that sends the whole phase to the Clifford output
SplitGadgetWholePhase(gadget) ==
    IF PhaseIsClifford(gadget.phase)
    THEN [cliffords |-> PhaseGadget(gadget.phase, gadget.parity),
          gates |-> << >>, columns |-> << >>]
    ELSE [cliffords |-> PhaseGadget(gadget.phase, gadget.parity),
          gates |-> PhaseGadget(PhaseT, gadget.parity),
          columns |-> <<gadget.parity>>]

\* What one recorded gadget adds to the Clifford output, to the block and
\* to the matrix columns
SplitGadget(gadget) ==
    IF PhaseIsClifford(gadget.phase)
    THEN [cliffords |-> PhaseGadget(gadget.phase, gadget.parity),
          gates |-> << >>, columns |-> << >>]
    ELSE [cliffords |-> PhaseGadget(PhaseSub(gadget.phase, PhaseT), gadget.parity),
          gates |-> PhaseGadget(PhaseT, gadget.parity),
          columns |-> <<gadget.parity>>]

\* The loop over the recorded gadgets lo, .., hi in order
RECURSIVE SplitGadgets(_, _, _)
SplitGadgets(gadgets, lo, hi) ==
    IF lo > hi THEN [cliffords |-> << >>, gates |-> << >>, columns |-> << >>]
    ELSE IF lo = hi THEN SplitGadget(gadgets[lo])
    ELSE LET l == SplitGadgets(gadgets, lo, Mid(lo, hi))
             r == SplitGadgets(gadgets, Mid(lo, hi) + 1, hi)
         IN  [cliffords |-> l.cliffords \o r.cliffords,
              gates |-> l.gates \o r.gates,
              columns |-> l.columns \o r.columns]

\* A pruning that numbers the surviving rows from 0 in the returned map
PruneRowsRenumbered(n, columns) ==
    LET rows == IF Len(columns) = 0 THEN 0 ELSE n
        kept == Ascending({i \in 0..(rows - 1) : \E l \in 1..Len(columns) : columns[l][i]})
    IN  [map |-> [r \in 1..Len(kept) |-> r - 1],
         matrix |-> [n |-> Len(kept),
                     cols |-> [l \in 1..Len(columns) |->
                                 [r \in 0..(Len(kept) - 1) |-> columns[l][kept[r + 1]]]]]]

\* The stacked columns with the all-zero rows removed, and the surviving
\* row indices; no column at all gives the 0 x 0 matrix
PruneRows(n, columns) ==
    LET rows == IF Len(columns) = 0 THEN 0 ELSE n
        kept == Ascending({i \in 0..(rows - 1) : \E l \in 1..Len(columns) : columns[l][i]})
    IN  [map |-> kept,
         matrix |-> [n |-> Len(kept),
                     cols |-> [l \in 1..Len(columns) |->
                                 [r \in 0..(Len(kept) - 1) |-> columns[l][kept[r + 1]]]]]]

\* Circuit::extract_gadgets
ExtractGadgets(self) ==
    LET cnots == SelectSeq(self, LAMBDA g : g.op = "CNOT")
        n == CircuitQubits(self)
        gadgets == TrackGadgets(self, 1, Len(self),
                                [rows |-> IdentityRows(n), gadgets |-> << >>]).gadgets
        split == SplitGadgets(gadgets, 1, Len(gadgets))
        pruned == PruneRows(n, split.columns)
    IN  [gates |-> split.gates, map |-> pruned.map, matrix |-> pruned.matrix,
         cliffords |-> split.cliffords \o cnots]

------------------------------------------------------------------------------
(* extract.rs: the gadget pattern synthesizer *)

\* map[i] of the source
MapQ(m, i) == m[i + 1]

Rows(col) == DOMAIN col

\* position(..): the first row satisfying a test, or none
NoRow == -1
FirstRow(S) == IF S = {} THEN NoRow ELSE Min(S)

Cnots(pairs, m) == [k \in 1..Len(pairs) |-> CNOT(MapQ(m, pairs[k][1]), MapQ(m, pairs[k][2]))]

\* No pair for the rows outside the pivots
RestPairsNone(rows, cs, pivots) == << >>

\* The pairs pushed for the rows outside the pivots, row by row
RECURSIVE RestPairs(_, _, _)
RestPairs(rows, cs, pivots) ==
    IF rows = {} THEN << >>
    ELSE LET l == Min(rows)
             here == SelectSeq([k \in 1..Len(cs) |-> <<l, pivots[k], cs[k][l]>>],
                               LAMBDA t : t[3])
         IN  [k \in 1..Len(here) |-> <<here[k][1], here[k][2]>>]
             \o RestPairs(rows \ {l}, cs, pivots)

If(cond, pairs) == IF cond THEN pairs ELSE << >>

\* The fallback that addresses qubits by row number instead of through the map
SynthGadgetUnmapped(col, m) ==
    IF SetRows(col) = {} THEN << >>
    ELSE LET t == Min(SetRows(col))
             others == Ascending(SetRows(col) \ {t})
             fan == [k \in 1..Len(others) |-> CNOT(others[k], t)]
         IN  fan \o <<Phase(PhaseT, t)>> \o Reverse(fan)

\* Circuit::synth_gadget: the gates appended for one column
SynthGadget(col, m) ==
    IF SetRows(col) = {} THEN << >>
    ELSE LET t == Min(SetRows(col))
             others == Ascending(SetRows(col) \ {t})
             fan == [k \in 1..Len(others) |-> CNOT(MapQ(m, others[k]), MapQ(m, t))]
         IN  fan \o <<Phase(PhaseT, MapQ(m, t))>> \o Reverse(fan)

NoMatch == [matched |-> FALSE, panic |-> FALSE, gates |-> << >>]
Panicked == [matched |-> FALSE, panic |-> TRUE, gates |-> << >>]

\* Circuit::try_synth_cs_gadget on the three columns cols: whether it
\* matched, the gates it appended, or that an unwrap() on None panicked
TrySynthCsGadget(cols, m) ==
    LET a == cols[1]
        b == cols[2]
        c == cols[3]
        i == FirstRow({l \in Rows(a) : a[l]})
        j == FirstRow({l \in Rows(a) : (a[l] \/ b[l]) /\ (~a[l] \/ (b[l] # b[i]))})
        basis_change ==
            If(a[j], <<(<<j, i>>)>>) \o If(b[i], <<(<<i, j>>)>>)
            \o RestPairs(Rows(a) \ {i, j}, <<a, b>>, <<i, j>>)
    IN  IF a = b THEN NoMatch
        ELSE IF \E l \in Rows(a) : Xor(a[l], b[l]) # c[l] THEN NoMatch
        ELSE IF i = NoRow THEN Panicked
        ELSE IF j = NoRow THEN Panicked
        ELSE [matched |-> TRUE, panic |-> FALSE,
              pivots |-> <<i, j>>, pairs |-> basis_change,
              gates |-> Cnots(basis_change, m)
                        \o <<CS(MapQ(m, i), MapQ(m, j)),
                             CZ(MapQ(m, i), MapQ(m, j)),
                             Phase(PhaseS, MapQ(m, i)),
                             Phase(PhaseS, MapQ(m, j))>>
                        \o Reverse(Cnots(basis_change, m))]

\* Circuit::try_synth_ccz_gadget on the seven columns cols
TrySynthCczGadget(cols, m) ==
    LET a == cols[1]
        b == cols[2]
        c == cols[3]
        rest == {cols[4], cols[5], cols[6], cols[7]}
        found_ab == \E d \in rest : \A l \in Rows(a) : Xor(a[l], b[l]) = d[l]
        found_ac == \E d \in rest : \A l \in Rows(a) : Xor(a[l], c[l]) = d[l]
        found_bc == \E d \in rest : \A l \in Rows(a) : Xor(b[l], c[l]) = d[l]
        found_abc == \E d \in rest : \A l \in Rows(a) : Xor(Xor(a[l], b[l]), c[l]) = d[l]
        i == FirstRow({l \in Rows(a) : a[l]})
        bb2(l) == IF a[l] THEN Xor(b[l], b[i]) ELSE b[l]
        j == FirstRow({l \in Rows(a) : l # i /\ bb2(l)})
        cc2(l) == IF a[l] THEN Xor(c[l], c[i]) ELSE c[l]
        cj2 == IF a[j] THEN Xor(c[j], c[i]) ELSE c[j]
        cc3(l) == IF bb2(l) THEN Xor(cc2(l), cj2) ELSE cc2(l)
        k == FirstRow({l \in Rows(a) : l # i /\ l # j /\ cc3(l)})
        bk2 == IF a[k] THEN Xor(b[k], b[i]) ELSE b[k]
        \* the pairs as pushed, before each is swapped
        pushed ==
            If(a[j], <<(<<i, j>>)>>) \o If(a[k], <<(<<i, k>>)>>)
            \o If(bk2, <<(<<j, k>>)>>) \o If(c[i], <<(<<k, i>>)>>)
            \o If(cj2, <<(<<k, j>>)>>) \o If(b[i], <<(<<j, i>>)>>)
        basis_change ==
            [t \in 1..Len(pushed) |-> <<pushed[t][2], pushed[t][1]>>]
            \o RestPairs(Rows(a) \ {i, j, k}, <<a, b, c>>, <<i, j, k>>)
    IN  IF a = b \/ a = c \/ b = c \/ (\A l \in Rows(a) : Xor(a[l], b[l]) = c[l])
        THEN NoMatch
        ELSE IF ~found_ab \/ ~found_ac \/ ~found_bc \/ ~found_abc THEN NoMatch
        ELSE IF i = NoRow THEN Panicked
        ELSE IF j = NoRow THEN Panicked
        ELSE IF k = NoRow THEN Panicked
        ELSE [matched |-> TRUE, panic |-> FALSE,
              pivots |-> <<i, j, k>>, pairs |-> basis_change,
              gates |-> Cnots(basis_change, m)
                        \o <<CCZ(MapQ(m, i), MapQ(m, j), MapQ(m, k)),
                             CZ(MapQ(m, i), MapQ(m, j)),
                             CZ(MapQ(m, i), MapQ(m, k)),
                             CZ(MapQ(m, j), MapQ(m, k)),
                             Phase(PhaseZ, MapQ(m, i)),
                             Phase(PhaseZ, MapQ(m, j)),
                             Phase(PhaseZ, MapQ(m, k))>>
                        \o Reverse(Cnots(basis_change, m))]

\* The element of a one-element set; binding a value through a one-element
\* set has it computed once
The(S) == CHOOSE x \in S : TRUE

\* What one pass of the while loop did, given what the pattern calls
\* returned: the branch that consumed columns and the gates appended
StepOf(idx, try_ccz, ccz, try_cs, cs, single) ==
    LET kind == IF ccz.panic \/ cs.panic THEN "panic"
                ELSE IF ccz.matched THEN "ccz"
                ELSE IF cs.matched THEN "cs" ELSE "t"
    IN  [idx |-> idx, kind |-> kind, try_ccz |-> try_ccz, ccz |-> ccz,
         try_cs |-> try_cs, cs |-> cs,
         gates |-> CASE kind = "ccz" -> ccz.gates
                     [] kind = "cs" -> cs.gates
                     [] kind = "t" -> single
                     [] OTHER -> << >>]

\* One pass of the while loop that tries the CS pattern before the CCZ one
SynthStepCsFirst(a, m, gadgets, idx) ==
    LET cols == Len(a.cols)
        try_cs == gadgets /\ idx + 3 <= cols
    IN  The({LET try_ccz == gadgets /\ idx + 7 <= cols /\ ~cs.panic /\ ~cs.matched
             IN  The({StepOf(idx, try_ccz, ccz, try_cs, cs,
                             SynthGadget(a.cols[idx + 1], m))
                      : ccz \in {IF try_ccz
                                 THEN TrySynthCczGadget(SubSeq(a.cols, idx + 1, idx + 7), m)
                                 ELSE NoMatch}})
             : cs \in {IF try_cs
                       THEN TrySynthCsGadget(SubSeq(a.cols, idx + 1, idx + 3), m)
                       ELSE NoMatch}})

\* One pass of the while loop of extract::extract_gadgets at column idx
\* (counted from 0): the CCZ pattern is tried on seven columns, then the CS
\* pattern on three, then the single column is synthesized
SynthStep(a, m, gadgets, idx) ==
    LET cols == Len(a.cols)
        try_ccz == gadgets /\ idx + 7 <= cols
    IN  The({LET try_cs == gadgets /\ idx + 3 <= cols /\ ~ccz.panic /\ ~ccz.matched
             IN  The({StepOf(idx, try_ccz, ccz, try_cs, cs,
                             SynthGadget(a.cols[idx + 1], m))
                      : cs \in {IF try_cs
                                THEN TrySynthCsGadget(SubSeq(a.cols, idx + 1, idx + 3), m)
                                ELSE NoMatch}})
             : ccz \in {IF try_ccz
                        THEN TrySynthCczGadget(SubSeq(a.cols, idx + 1, idx + 7), m)
                        ELSE NoMatch}})

\* The columns a pass consumes
Consumed(kind) == CASE kind = "ccz" -> 7 [] kind = "cs" -> 3 [] OTHER -> 1

\* The accumulated result after the pass st
Advance(acc, st) ==
    [acc EXCEPT !.gates = @ \o st.gates,
                !.nccz = @ + (IF st.kind = "ccz" THEN 1 ELSE 0),
                !.ncs = @ + (IF st.kind = "cs" THEN 1 ELSE 0),
                !.nt = @ + (IF st.kind = "t" THEN 1 ELSE 0),
                !.panic = st.kind = "panic",
                !.steps = Append(@, st)]

\* The while loop of extract::extract_gadgets from column idx (counted from 0)
RECURSIVE SynthLoop(_, _, _, _, _)
SynthLoop(a, m, gadgets, idx, acc) ==
    IF idx >= Len(a.cols) THEN acc
    ELSE The({The({IF st.kind = "panic" THEN nx
                   ELSE SynthLoop(a, m, gadgets, idx + Consumed(st.kind), nx)
                   : nx \in {Advance(acc, st)}})
              : st \in {SynthStep(a, m, gadgets, idx)}})

\* extract::extract_gadgets: the circuit and the counters, or a panic; steps
\* lists the passes of the loop
Synthesize(a, m, gadgets) ==
    SynthLoop(a, m, gadgets, 0,
              [gates |-> << >>, nccz |-> 0, ncs |-> 0, nt |-> 0, panic |-> FALSE,
               steps |-> << >>])

------------------------------------------------------------------------------
(* extract.rs: signature tensor, phase polynomial, Clifford correction *)

\* a[(i, l)] of the source
At(a, i, l) == a.cols[l + 1][i]

Idx(n) == (0..(n - 1)) \X (0..(n - 1)) \X (0..(n - 1))

B2N(b) == IF b THEN 1 ELSE 0

\* A signature tensor that ORs the columns' products instead of adding them
FindSignatureTensorOr(a) ==
    [t \in Idx(a.n) |->
        \E l \in 0..(Len(a.cols) - 1) :
            At(a, t[1], l) /\ At(a, t[2], l) /\ At(a, t[3], l)]

\* extract::find_signature_tensor: the XOR over the columns of a_i a_j a_k
FindSignatureTensor(a) ==
    [t \in Idx(a.n) |->
        Cardinality({l \in 0..(Len(a.cols) - 1) :
                        At(a, t[1], l) /\ At(a, t[2], l) /\ At(a, t[3], l)}) % 2 = 1]

\* The body of the loop over the columns: what column l adds to every entry
ColumnStep(s, a, l, np) ==
    [t \in DOMAIN s |->
        LET i == t[1]
            j == t[2]
            k == t[3]
        IN  IF i > j /\ j > k
            THEN (s[t] + B2N(At(a, i, l) /\ At(a, j, l) /\ At(a, k, l))) % 8
            ELSE IF i > j /\ j = k
            THEN (s[t] + (11 - np) * B2N(At(a, i, l) /\ At(a, j, l))) % 8
            ELSE IF i = j /\ j = k
            THEN (s[t] + (np + 6) * (np + 5) * B2N(At(a, i, l))) % 8
            ELSE s[t]]

\* The loop over the columns l, .., r - 1
RECURSIVE ColumnLoop(_, _, _, _)
ColumnLoop(s, a, l, np) ==
    IF l >= Len(a.cols) THEN s
    ELSE LET next == ColumnStep(s, a, l, np)
         IN  CASE next = next -> ColumnLoop(next, a, l + 1, np)

LexLeq(t, u) ==
    \/ t[1] < u[1]
    \/ t[1] = u[1] /\ t[2] < u[2]
    \/ t[1] = u[1] /\ t[2] = u[2] /\ t[3] <= u[3]

\* The index triples of a set in the order the nested for loops visit them
RECURSIVE InLoopOrder(_)
InLoopOrder(S) ==
    IF S = {} THEN << >>
    ELSE LET first == CHOOSE t \in S : \A u \in S : LexLeq(t, u)
         IN  <<first>> \o InLoopOrder(S \ {first})

\* Rewriting the parity of size 3 at (i, j, k)
CubicStep(s, t) ==
    LET i == t[1]
        j == t[2]
        k == t[3]
        v == s[t]
    IN  IF v = 0 THEN s
        ELSE [s EXCEPT ![<<i, i, i>>] = (@ + 7 * v) % 8,
                       ![<<j, j, j>>] = (@ + 7 * v) % 8,
                       ![<<k, k, k>>] = (@ + 7 * v) % 8,
                       ![<<i, j, j>>] = (@ + v) % 8,
                       ![<<i, k, k>>] = (@ + v) % 8,
                       ![<<j, k, k>>] = (@ + v) % 8,
                       ![t] = (4 * v) % 8]

\* Rewriting the parity of size 2 at (i, j, j)
QuadStep(s, t) ==
    LET i == t[1]
        j == t[2]
        v == s[t]
    IN  IF v = 0 THEN s
        ELSE [s EXCEPT ![<<i, i, i>>] = (@ + v) % 8,
                       ![<<j, j, j>>] = (@ + v) % 8,
                       ![t] = (6 * v) % 8]

\* The two rewriting loops, over the entries ts from position p on
RECURSIVE RewriteLoop(_, _, _, _)
RewriteLoop(s, ts, p, cubic) ==
    IF p > Len(ts) THEN s
    ELSE LET next == IF cubic THEN CubicStep(s, ts[p]) ELSE QuadStep(s, ts[p])
         IN  CASE next = next -> RewriteLoop(next, ts, p + 1, cubic)

\* extract::find_phase_polynomial
FindPhasePolynomial(a) ==
    LET n == a.n
        np == n % 8
        s0 == ColumnLoop([t \in Idx(n) |-> 0], a, 0, np)
        triples == InLoopOrder({t \in Idx(n) : t[1] > t[2] /\ t[2] > t[3]})
        pairs == InLoopOrder({t \in Idx(n) : t[1] > t[2] /\ t[2] = t[3]})
        s1 == RewriteLoop(s0, triples, 1, TRUE)
    IN  RewriteLoop(s1, pairs, 1, FALSE)

\* extract::clifford_correction
CliffordCorrection(a, b, m) ==
    LET n == a.n
        pa == FindPhasePolynomial(a)
        pb == FindPhasePolynomial(b)
        sc == [t \in Idx(n) |-> (pb[t] + 8 - pa[t]) % 8]
        czs(i) == LET js == Ascending({j \in 0..(i - 1) : sc[<<i, j, j>>] = 4})
                  IN  [k \in 1..Len(js) |-> CZ(MapQ(m, i), MapQ(m, js[k]))]
        ph(i) == IF sc[<<i, i, i>>] # 0
                 THEN <<Phase(sc[<<i, i, i>>], MapQ(m, i))>> ELSE << >>
    IN  Concat([r \in 1..n |-> czs(r - 1) \o ph(r - 1)])

\* extract::has_zero_columns
HasZeroColumns(a) ==
    \E l \in 1..Len(a.cols) : \A i \in 0..(a.n - 1) : ~a.cols[l][i]

------------------------------------------------------------------------------
(* hadamard.rs: Hadamard gadgets.  The state of a decomposition is the     *)
(* block's gates, the ancilla counter, the front and back circuits and the *)
(* ancillas allocated so far.                                              *)

\* decomp_had that adds no Hadamard to the back circuit
DecompHadNoBack(st, idx) ==
    IF st.gates[idx].op # "H" THEN st
    ELSE LET q == st.gates[idx].qs[1]
             n == st.next_id
         IN  [gates |-> SubSeq(st.gates, 1, idx - 1) \o <<SWAP(n, q), CZ(n, q)>>
                          \o SubSeq(st.gates, idx + 1, Len(st.gates)),
              next_id |-> n + 1,
              front |-> Append(st.front, H(n)),
              back |-> st.back,
              ids |-> Append(st.ids, n)]

\* Circuit::decomp_had: the H at idx becomes SWAP(n, q), CZ(n, q) on a new
\* qubit n, and H(n) is pushed to front and to back
DecompHad(st, idx) ==
    IF st.gates[idx].op # "H" THEN st
    ELSE LET q == st.gates[idx].qs[1]
             n == st.next_id
         IN  [gates |-> SubSeq(st.gates, 1, idx - 1) \o <<SWAP(n, q), CZ(n, q)>>
                          \o SubSeq(st.gates, idx + 1, Len(st.gates)),
              next_id |-> n + 1,
              front |-> Append(st.front, H(n)),
              back |-> Append(st.back, H(n)),
              ids |-> Append(st.ids, n)]

\* The loop of decomp_hads: the first H is decomposed until none is left
RECURSIVE DecompHadsLoop(_)
DecompHadsLoop(st) ==
    LET hs == {i \in 1..Len(st.gates) : st.gates[i].op = "H"}
    IN  IF hs = {} THEN st
        ELSE LET nx == DecompHad(st, Min(hs))
             IN  CASE nx = nx -> DecompHadsLoop(nx)

\* Circuit::decomp_hads
DecompHads(self, counter, f, b) ==
    DecompHadsLoop([gates |-> self, next_id |-> counter, front |-> f, back |-> b,
                    ids |-> << >>])

\* The loop body that canonicalizes a block without decomposing its
\* Hadamards
BlockStepKeepHads(st, pos) ==
    LET r == ToCnotPhase(st.blocks[pos])
        n == Len(st.blocks)
    IN  {LET xs == [k \in 1..Len(order) |-> X(order[k])]
         IN  [front |-> st.front,
              back |-> IF pos = n THEN xs \o st.back ELSE st.back,
              blocks |-> IF pos = n
                         THEN [st.blocks EXCEPT ![pos] = r.gates]
                         ELSE [st.blocks EXCEPT ![pos] = r.gates, ![pos + 1] = xs \o @],
              next_id |-> st.next_id,
              ids |-> st.ids,
              corrections |-> Append(st.corrections, xs)]
            : order \in Orderings(r.total_x)}

\* The loop body of PartitionedCircuit::to_cnot_phase for the block at pos:
\* its Hadamards are decomposed, it is rewritten to CNOT+Phase, and the
\* returned X circuit (in any order of the hash set) goes in front of the
\* next block, or of back after the last block
BlockStep(st, pos) ==
    LET d == DecompHads(st.blocks[pos], st.next_id, st.front, st.back)
        r == ToCnotPhase(d.gates)
        n == Len(st.blocks)
    IN  {LET xs == [k \in 1..Len(order) |-> X(order[k])]
         IN  [front |-> d.front,
              back |-> IF pos = n THEN xs \o d.back ELSE d.back,
              blocks |-> IF pos = n
                         THEN [st.blocks EXCEPT ![pos] = r.gates]
                         ELSE [st.blocks EXCEPT ![pos] = r.gates, ![pos + 1] = xs \o @],
              next_id |-> d.next_id,
              ids |-> st.ids \o d.ids,
              corrections |-> Append(st.corrections, xs)]
            : order \in Orderings(r.total_x)}

\* The even-index blocks of the source (odd positions here), last to first
RECURSIVE BlockLoop(_, _)
BlockLoop(S, pos) ==
    IF pos < 1 THEN S
    ELSE LET nx == UNION {BlockStep(st, pos) : st \in S}
         IN  CASE nx = nx -> BlockLoop(nx, pos - 2)

\* PartitionedCircuit::to_cnot_phase: the counter starts above the qubits of
\* the blocks
PartitionedToCnotPhase(f, bs, b) ==
    LET qubits == CircuitQubits(Concat(bs))
        last == IF Len(bs) % 2 = 1 THEN Len(bs) ELSE Len(bs) - 1
    IN  BlockLoop({[front |-> f, back |-> b, blocks |-> bs, next_id |-> qubits,
                    ids |-> << >>, corrections |-> << >>]}, last)

\* The loop body of PartitionedCircuit::extract_gadgets that merges the
\* returned Clifford circuit behind the next block instead of in front of it
ExtractStepBehind(st, pos) ==
    LET r == ExtractGadgets(st.blocks[pos])
        n == Len(st.blocks)
    IN  [back |-> IF pos = n THEN st.back \o r.cliffords ELSE st.back,
         blocks |-> IF pos = n
                    THEN [st.blocks EXCEPT ![pos] = r.gates]
                    ELSE [st.blocks EXCEPT ![pos] = r.gates, ![pos + 1] = @ \o r.cliffords],
         out |-> Append(st.out, [map |-> r.map, matrix |-> r.matrix,
                                 cliffords |-> r.cliffords])]

\* The loop body of PartitionedCircuit::extract_gadgets for the block at pos:
\* the block is diagonalized in place and the returned Clifford circuit goes
\* in front of the next block, or of back after the last block
ExtractStep(st, pos) ==
    LET r == ExtractGadgets(st.blocks[pos])
        n == Len(st.blocks)
    IN  [back |-> IF pos = n THEN r.cliffords \o st.back ELSE st.back,
         blocks |-> IF pos = n
                    THEN [st.blocks EXCEPT ![pos] = r.gates]
                    ELSE [st.blocks EXCEPT ![pos] = r.gates, ![pos + 1] = r.cliffords \o @],
         out |-> Append(st.out, [map |-> r.map, matrix |-> r.matrix,
                                 cliffords |-> r.cliffords])]

\* The even-index blocks of the source, first to last
RECURSIVE ExtractLoop(_, _)
ExtractLoop(st, pos) ==
    IF pos > Len(st.blocks) THEN st
    ELSE LET nx == ExtractStep(st, pos)
         IN  CASE nx = nx -> ExtractLoop(nx, pos + 2)

\* PartitionedCircuit::extract_gadgets: out lists, block by block, the
\* mapping and matrix pushed to matrices and the Clifford circuit merged
PartitionedExtractGadgets(bs, b) ==
    ExtractLoop([back |-> b, blocks |-> bs, out |-> << >>], 1)

------------------------------------------------------------------------------
(* Partition pipeline: build a circuit, partition it, merge blocks under a *)
(* budget, reassemble.                                                     *)

\* No synthesis result yet
Null == [unset |-> TRUE]

EmptyMatrix == [n |-> 0, cols |-> << >>]

\* No Hadamard gadget allocated yet
HadUnset ==
    /\ next_id = 0
    /\ ancillas = << >>
    /\ corrections = << >>
    /\ call = Null

\* No text parsed
QcUnset ==
    /\ source = << >>
    /\ parsed = Null

\* compile::main not running
CompUnset ==
    /\ args = Null
    /\ circuits = << >>
    /\ failed = FALSE
    /\ ran = << >>
    /\ logfile = << >>

\* No search run and no block extracted
TraceUnset ==
    /\ attempts = << >>
    /\ extracted = << >>

\* resynth::main not running
ResynthUnset ==
    /\ invocation = Null
    /\ files = << >>
    /\ values = << >>
    /\ report = << >>
    /\ written = << >>

CanonUnset ==
    /\ HadUnset
    /\ QcUnset
    /\ CompUnset
    /\ TraceUnset
    /\ ResynthUnset
    /\ before = << >>
    /\ xswaps = << >>
    /\ cliffords = << >>
    /\ map = << >>
    /\ matrix = EmptyMatrix
    /\ circ1 = Null
    /\ circ2 = Null
    /\ orig = EmptyMatrix
    /\ correction = << >>

MaxGates == 4
MaxBudget == 2
MaxIters == 2

PartQubits == 0..2

PartGates ==
    {H(q) : q \in PartQubits}
    \cup {Phase(PhaseT, q) : q \in PartQubits}
    \cup {CNOT(0, 1), CNOT(1, 2), CNOT(2, 0), Phase(PhaseS, 1), X(0)}

\* The circuit of the first concrete scenario
Scenario1 == <<H(0), CNOT(0, 1), Phase(PhaseT, 1), CNOT(0, 1), H(0)>>

\* Seven alternating functional and Clifford blocks on one qubit
Scenario3 ==
    <<Phase(PhaseT, 0), H(0), Phase(PhaseT, 0), H(0), Phase(PhaseT, 0), H(0),
      Phase(PhaseT, 0)>>

\* Two functional blocks that each carry an X and a CNOT between their T
\* gates, around one Clifford block
Scenario4 ==
    <<Phase(PhaseT, 0), X(0), CNOT(0, 1), Phase(PhaseT, 0), H(0),
      Phase(PhaseT, 0), X(0), CNOT(0, 1), Phase(PhaseT, 0)>>

InitPart ==
    /\ pc = "build"
    /\ original \in {<< >>, Scenario1, Scenario3, Scenario4}
    /\ gates = original
    /\ front = << >>
    /\ back = << >>
    /\ blocks = << >>
    /\ blocks0 = << >>
    /\ budget = 0
    /\ ret = 0
    /\ CanonUnset

Push(g) ==
    /\ pc = "build"
    /\ Len(gates) < MaxGates
    /\ gates' = Append(gates, g)
    /\ original' = gates'
    /\ UNCHANGED <<auxVars, corrVars, pc, partVars, canonVars>>

\* Circuit::extract_cliffords called on the circuit alone
DoExtractCliffords ==
    /\ pc = "build"
    /\ LET e == ExtractCliffords(gates)
       IN  /\ front' = e.front
           /\ back' = e.back
           /\ gates' = e.rest
    /\ pc' = "cliffords"
    /\ UNCHANGED <<auxVars, corrVars, original, blocks, blocks0, budget, ret, canonVars>>

DoPartition ==
    /\ pc = "build"
    /\ LET p == Partition(gates)
       IN  /\ front' = p.front
           /\ back' = p.back
           /\ blocks' = p.blocks
    /\ gates' = << >>
    /\ pc' = "partitioned"
    /\ UNCHANGED <<auxVars, corrVars, original, blocks0, budget, ret, canonVars>>

DoPickGadgets(bud, iters) ==
    /\ pc = "partitioned"
    /\ \E s \in PickSearch(blocks, bud, iters) :
          /\ blocks' = Regroup(blocks, s.best)
          /\ ret' = Len(s.best)
          /\ attempts' = s.tried
    /\ blocks0' = blocks
    /\ budget' = bud
    /\ pc' = "picked"
    /\ UNCHANGED <<hadVars, qcVars, compVars, extracted, resynthVars, corrVars, original,
                   gates, front, back, canonVars>>

\* PartitionedCircuit::to_cnot_phase, on the partition as returned or
\* after pick_gadgets
DoPartitionedToCnotPhase ==
    /\ pc \in {"partitioned", "picked"}
    /\ \E r \in PartitionedToCnotPhase(front, blocks, back) :
          /\ front' = r.front
          /\ back' = r.back
          /\ blocks' = r.blocks
          /\ next_id' = r.next_id
          /\ ancillas' = r.ids
          /\ corrections' = r.corrections
    /\ call' = [front |-> front, back |-> back, blocks |-> blocks]
    /\ pc' = "gadgetized"
    /\ UNCHANGED <<original, gates, blocks0, budget, ret, canonVars, corrVars, lateVars,
                   qcVars, compVars>>

\* PartitionedCircuit::extract_gadgets, on the blocks to_cnot_phase left
DoPartitionedExtractGadgets ==
    /\ pc = "gadgetized"
    /\ LET r == PartitionedExtractGadgets(blocks, back)
       IN  /\ blocks' = r.blocks
           /\ back' = r.back
           /\ extracted' = r.out
    /\ pc' = "matrices"
    /\ UNCHANGED <<original, gates, front, blocks0, budget, ret, canonVars, corrVars,
                   hadVars, qcVars, compVars, attempts, resynthVars>>

DoMerge ==
    /\ pc \in {"partitioned", "picked"}
    /\ gates' = MergeAll(front, blocks, back)
    /\ pc' = "merged"
    /\ UNCHANGED <<auxVars, corrVars, original, partVars, canonVars>>

NextPart ==
    \/ \E g \in PartGates : Push(g)
    \/ DoExtractCliffords
    \/ DoPartition
    \/ \E bud \in 0..MaxBudget : \E iters \in 0..MaxIters : DoPickGadgets(bud, iters)
    \/ DoPartitionedToCnotPhase
    \/ DoPartitionedExtractGadgets
    \/ DoMerge

SpecPart == InitPart /\ [][NextPart]_vars

------------------------------------------------------------------------------
(* Block-merge optimizer alone: pick_gadgets on any list of blocks.        *)

MaxBlocks == 5

\* Blocks of Hadamard cost 0, 1, 2 and 3
PickBlocks ==
    {<<Phase(PhaseT, 0)>>, <<H(0)>>, <<H(0), CNOT(0, 1), H(1)>>, <<H(0), H(1), H(0)>>}

InitPick ==
    /\ pc = "partitioned"
    /\ original = << >>
    /\ gates = << >>
    /\ front \in {<< >>, <<H(1)>>}
    /\ back = front
    /\ blocks \in UNION {[1..n -> PickBlocks] : n \in 0..MaxBlocks}
    /\ blocks0 = << >>
    /\ budget = 0
    /\ ret = 0
    /\ CanonUnset

NextPick ==
    \E bud \in 0..MaxBudget : \E iters \in 0..MaxIters : DoPickGadgets(bud, iters)

SpecPick == InitPick /\ [][NextPick]_vars

------------------------------------------------------------------------------
(* Canonicalization pipeline: build an H-free circuit, rewrite it into     *)
(* CNOT+Phase form, extract its synthesis matrix, synthesize it again.     *)

MaxCanonGates == 3

CanonGates ==
    {X(0), X(2),
     CNOT(0, 1), CNOT(1, 0), CNOT(1, 2), CNOT(2, 0),
     Phase(0, 0), Phase(PhaseT, 0), Phase(PhaseT, 1), Phase(PhaseS, 0), Phase(3, 2),
     Phase(PhaseZ, 2), Phase(7, 1),
     CZ(0, 1), CS(1, 2), CCZ(0, 1, 2), SWAP(0, 2)}

InitCanon ==
    /\ pc = "build"
    /\ original = << >>
    /\ gates = << >>
    /\ front = << >>
    /\ back = << >>
    /\ blocks = << >>
    /\ blocks0 = << >>
    /\ budget = 0
    /\ ret = 0
    /\ CanonUnset

PushCanon(g) ==
    /\ pc = "build"
    /\ Len(gates) < MaxCanonGates
    /\ gates' = Append(gates, g)
    /\ original' = gates'
    /\ UNCHANGED <<auxVars, corrVars, pc, partVars, canonVars>>

DoToCnotPhase ==
    /\ pc = "build"
    /\ LET r == ToCnotPhase(gates)
       IN  /\ gates' = r.gates
           /\ \E order \in Orderings(r.total_x) :
                 xswaps' = [i \in 1..Len(order) |-> X(order[i])]
    /\ before' = gates
    /\ pc' = "cnot_phase"
    /\ UNCHANGED <<auxVars, corrVars, original, partVars, cliffords, map, matrix, circ1, circ2>>

DoExtractGadgets ==
    /\ pc = "cnot_phase"
    /\ LET r == ExtractGadgets(gates)
       IN  /\ gates' = r.gates
           /\ map' = r.map
           /\ matrix' = r.matrix
           /\ cliffords' = r.cliffords
    /\ before' = gates
    /\ pc' = "extracted"
    /\ UNCHANGED <<auxVars, corrVars, original, partVars, xswaps, circ1, circ2>>

DoResynth(gadgets) ==
    /\ pc = "extracted"
    /\ IF gadgets
       THEN circ1' = Synthesize(matrix, map, TRUE) /\ UNCHANGED circ2
       ELSE circ2' = Synthesize(matrix, map, FALSE) /\ UNCHANGED circ1
    /\ pc' = "resynth"
    /\ UNCHANGED <<auxVars, corrVars, original, gates, partVars, before, xswaps, cliffords, map, matrix>>

NextCanon ==
    \/ \E g \in CanonGates : PushCanon(g)
    \/ DoToCnotPhase
    \/ DoExtractGadgets
    \/ \E gadgets \in BOOLEAN : DoResynth(gadgets)

SpecCanon == InitCanon /\ [][NextCanon]_vars

------------------------------------------------------------------------------
(* Synthesis alone: extract::extract_gadgets on any matrix, with and       *)
(* without gadget matching, as ccz_gadget_random and cs_gadget_random call  *)
(* it.                                                                      *)

MaxRows == 3
MaxCols == 7
\* Matrices built column by column hold at most this many entries
MaxLooseCells == 14

Columns(n) == [0..(n - 1) -> BOOLEAN]

XorCol(a, b) == [i \in DOMAIN a |-> Xor(a[i], b[i])]

\* Injective qubit maps for n rows: the identity, the reversal, a shift
QubitMaps(n) ==
    {[r \in 1..n |-> r - 1], [r \in 1..n |-> n - r], [r \in 1..n |-> r]}

IdleOutsideSynthesis ==
    /\ HadUnset
    /\ QcUnset
    /\ CompUnset
    /\ TraceUnset
    /\ ResynthUnset
    /\ original = << >>
    /\ gates = << >>
    /\ front = << >>
    /\ back = << >>
    /\ blocks = << >>
    /\ blocks0 = << >>
    /\ budget = 0
    /\ ret = 0
    /\ before = << >>
    /\ xswaps = << >>
    /\ cliffords = << >>
    /\ circ1 = Null
    /\ circ2 = Null
    /\ correction = << >>

InitSynth ==
    /\ pc = "cols"
    /\ matrix \in {[n |-> n, cols |-> << >>] : n \in 1..MaxRows}
    /\ map \in QubitMaps(matrix.n)
    /\ orig = EmptyMatrix
    /\ IdleOutsideSynthesis

PushCol(col) ==
    /\ pc = "cols"
    /\ Len(matrix.cols) < MaxCols
    /\ matrix.n * (Len(matrix.cols) + 1) <= MaxLooseCells
    /\ matrix' = [matrix EXCEPT !.cols = Append(@, col)]
    /\ UNCHANGED <<auxVars, pc, original, gates, partVars, before, xswaps, cliffords, map,
                   circ1, circ2, corrVars>>

\* The seven columns ccz_gadget_random stacks, the last four in any order,
\* for any three columns a, b, c
PushCczPattern ==
    /\ pc = "cols"
    /\ Len(matrix.cols) + 7 <= MaxCols
    /\ \E a, b, c \in Columns(matrix.n) : \E order \in Orderings(1..4) :
          LET rest == <<XorCol(a, b), XorCol(a, c), XorCol(b, c),
                        XorCol(XorCol(a, b), c)>>
          IN  matrix' = [matrix EXCEPT !.cols =
                            @ \o <<a, b, c>> \o [t \in 1..4 |-> rest[order[t]]]]
    /\ UNCHANGED <<auxVars, pc, original, gates, partVars, before, xswaps, cliffords, map,
                   circ1, circ2, corrVars>>

DoSynthesize ==
    /\ pc = "cols"
    /\ circ1' = Synthesize(matrix, map, TRUE)
    /\ circ2' = Synthesize(matrix, map, FALSE)
    /\ pc' = "synth"
    /\ UNCHANGED <<auxVars, original, gates, partVars, before, xswaps, cliffords, map, matrix,
                   corrVars>>

NextSynth ==
    \/ \E col \in Columns(matrix.n) : PushCol(col)
    \/ PushCczPattern
    \/ DoSynthesize

SpecSynth == InitSynth /\ [][NextSynth]_vars

------------------------------------------------------------------------------
(* Clifford correction alone: extract::clifford_correction between a       *)
(* decomposition matrix and an original matrix with the same rows, as      *)
(* resynth's main calls it.                                                *)

MaxCorrCols == 2

InitCorr ==
    /\ pc = "cols"
    /\ matrix \in {[n |-> n, cols |-> << >>] : n \in 1..MaxRows}
    /\ orig = matrix
    /\ map = [r \in 1..matrix.n |-> r - 1]
    /\ IdleOutsideSynthesis

PushDecompositionCol(col) ==
    /\ pc = "cols"
    /\ Len(matrix.cols) < MaxCorrCols
    /\ matrix' = [matrix EXCEPT !.cols = Append(@, col)]
    /\ UNCHANGED <<auxVars, pc, original, gates, partVars, before, xswaps, cliffords, map,
                   circ1, circ2, corrVars>>

PushOriginalCol(col) ==
    /\ pc = "cols"
    /\ Len(orig.cols) < MaxCorrCols
    /\ orig' = [orig EXCEPT !.cols = Append(@, col)]
    /\ UNCHANGED <<auxVars, pc, original, gates, partVars, canonVars, correction>>

DoCliffordCorrection ==
    /\ pc = "cols"
    /\ correction' = CliffordCorrection(matrix, orig, map)
    /\ pc' = "corrected"
    /\ UNCHANGED <<auxVars, original, gates, partVars, canonVars, orig>>

NextCorr ==
    \/ \E col \in Columns(matrix.n) : PushDecompositionCol(col)
    \/ \E col \in Columns(orig.n) : PushOriginalCol(col)
    \/ DoCliffordCorrection

SpecCorr == InitCorr /\ [][NextCorr]_vars

------------------------------------------------------------------------------
(* Hadamard gadgets alone: decomp_hads on any circuit of H, Phase and CNOT *)
(* gates, as hadamard_gadgetize_random calls it, and the action of         *)
(* circuits with Hadamards on state vectors.  An amplitude is an element   *)
(* of Z[w], w = exp(i pi/4): a tuple <<a0, a1, a2, a3>> stands for         *)
(* a0 + a1 w + a2 w^2 + a3 w^3.  H is applied without its factor           *)
(* 1/sqrt(2), so circuits are compared up to a scalar.                     *)

ZeroAmp == <<0, 0, 0, 0>>
OneAmp == <<1, 0, 0, 0>>

AmpAdd(u, v) == <<u[1] + v[1], u[2] + v[2], u[3] + v[3], u[4] + v[4]>>
AmpNeg(u) == <<-u[1], -u[2], -u[3], -u[4]>>

AmpMul(u, v) ==
    <<u[1] * v[1] - u[2] * v[4] - u[3] * v[3] - u[4] * v[2],
      u[1] * v[2] + u[2] * v[1] - u[3] * v[4] - u[4] * v[3],
      u[1] * v[3] + u[2] * v[2] + u[3] * v[1] - u[4] * v[4],
      u[1] * v[4] + u[2] * v[3] + u[3] * v[2] + u[4] * v[1]>>

\* u times w^k
RECURSIVE AmpTurn(_, _)
AmpTurn(u, k) ==
    IF k = 0 THEN u ELSE AmpTurn(<<-u[4], u[1], u[2], u[3]>>, k - 1)

\* A gate applied to a state vector psi, a function from basis states to
\* amplitudes: H adds and subtracts the two amplitudes of its qubit; every
\* other gate is a phase or a self-inverse permutation of the basis states
ApplyGateAmp(g, psi) ==
    IF g.op = "H"
    THEN LET q == g.qs[1]
         IN  [y \in DOMAIN psi |->
                 LET zero == psi[[y EXCEPT ![q] = FALSE]]
                     one == psi[[y EXCEPT ![q] = TRUE]]
                 IN  IF y[q] THEN AmpAdd(zero, AmpNeg(one)) ELSE AmpAdd(zero, one)]
    ELSE [y \in DOMAIN psi |->
             LET st == ApplyGate(g, [x |-> y, ph |-> 0])
             IN  AmpTurn(psi[st.x], st.ph)]

RECURSIVE RunAmpRange(_, _, _, _)
RunAmpRange(gs, lo, hi, psi) ==
    IF lo > hi THEN psi
    ELSE IF lo = hi THEN ApplyGateAmp(gs[lo], psi)
    ELSE LET l == RunAmpRange(gs, lo, Mid(lo, hi), psi)
         IN  CASE l = l -> RunAmpRange(gs, Mid(lo, hi) + 1, hi, l)

\* The basis state x of nq qubits with every further qubit up to w at 0
Padded(x, nq, w) == [q \in 0..(w - 1) |-> IF q < nq THEN x[q] ELSE FALSE]

\* The matrix of circuit gs on its first nq qubits when the qubits from nq
\* up to w are input as 0 and post-selected on 0: entry [x][y] is the
\* amplitude of output y on input x
Restricted(gs, nq, w) ==
    [x \in BasisStates(nq) |->
        LET out == RunAmpRange(gs, 1, Len(gs),
                               [z \in BasisStates(w) |->
                                   IF z = Padded(x, nq, w) THEN OneAmp ELSE ZeroAmp])
        IN  [y \in BasisStates(nq) |-> out[Padded(y, nq, w)]]]

\* Two matrices that differ by a non-zero scalar factor
Proportional(a, b) ==
    LET entries == (DOMAIN a) \X (DOMAIN a)
        p == CHOOSE e \in entries : a[e[1]][e[2]] # ZeroAmp
    IN  /\ \E e \in entries : a[e[1]][e[2]] # ZeroAmp
        /\ b[p[1]][p[2]] # ZeroAmp
        /\ \A e \in entries :
              AmpMul(b[e[1]][e[2]], a[p[1]][p[2]]) = AmpMul(b[p[1]][p[2]], a[e[1]][e[2]])

\* d realizes the unitary of c on c's qubits, up to a scalar, when every
\* further qubit of d is input as 0 and post-selected on 0
SameOnOriginalQubits(c, d) ==
    LET nq == CircuitQubits(c)
    IN  Proportional(Restricted(c, nq, nq), Restricted(d, nq, Width(c, d)))

MaxHadGates == 3

HadQubits == 2

HadGates ==
    {H(0), H(1), Phase(PhaseT, 0), Phase(3, 1), CNOT(0, 1), CNOT(1, 0)}

InitHad ==
    /\ pc = "build"
    /\ original = << >>
    /\ gates = << >>
    /\ front = << >>
    /\ back = << >>
    /\ blocks = << >>
    /\ blocks0 = << >>
    /\ budget = 0
    /\ ret = 0
    /\ CanonUnset

PushHad(g) ==
    /\ pc = "build"
    /\ Len(gates) < MaxHadGates
    /\ gates' = Append(gates, g)
    /\ original' = gates'
    /\ UNCHANGED <<auxVars, corrVars, pc, partVars, canonVars>>

\* decomp_hads with a counter starting at or above the circuit's qubits and
\* empty front and back, then front.merge(circuit).merge(back)
DoDecompHads(counter) ==
    /\ pc = "build"
    /\ LET d == DecompHads(gates, counter, << >>, << >>)
       IN  /\ front' = d.front
           /\ back' = d.back
           /\ before' = d.gates
           /\ gates' = d.front \o d.gates \o d.back
           /\ next_id' = d.next_id
           /\ ancillas' = d.ids
    /\ call' = [next_id |-> counter]
    /\ pc' = "gadgets"
    /\ UNCHANGED <<original, blocks, blocks0, budget, ret, xswaps, cliffords, map, matrix,
                   circ1, circ2, corrVars, lateVars, corrections, qcVars, compVars>>

NextHad ==
    \/ \E g \in HadGates : PushHad(g)
    \/ \E counter \in CircuitQubits(gates)..HadQubits : DoDecompHads(counter)

SpecHad == InitHad /\ [][NextHad]_vars

------------------------------------------------------------------------------
(* circuit.rs: the .qc parser.  A text is a sequence of lines and a line   *)
(* the sequence of the pieces between its blanks (split at every blank, so *)
(* the empty line is the one piece "").                                   *)

\* The prefixes of the lines from_qc passes over
Skipped == {"#", "BEGIN", "END", ".i", ".o"}

NoArity == -1

\* The arity from_qc expects of a gate name
Arity(gate) ==
    CASE gate \in {"T", "T*", "S", "S*", "Z", "H", "not", "X"} -> 1
      [] gate \in {"cz", "cnot", "swap"} -> 2
      [] OTHER -> NoArity

\* The constructor from_qc picks for a gate name
Con(gate, a) ==
    CASE gate = "T"    -> Phase(1, a[1])
      [] gate = "T*"   -> Phase(7, a[1])
      [] gate = "S"    -> Phase(2, a[1])
      [] gate = "S*"   -> Phase(6, a[1])
      [] gate = "Z"    -> Phase(4, a[1])
      [] gate = "H"    -> H(a[1])
      [] gate \in {"not", "X"} -> X(a[1])
      [] gate = "cz"   -> CZ(a[1], a[2])
      [] gate = "cnot" -> CNOT(a[1], a[2])
      [] gate = "swap" -> SWAP(a[1], a[2])

\* qubits.insert(qubit, Qubit(qubits.len())): the label, new or not, gets
\* the number of labels the map holds
Insert(qubits, label) ==
    [l \in DOMAIN qubits \cup {label} |->
        IF l = label THEN Cardinality(DOMAIN qubits) ELSE qubits[l]]

RECURSIVE InsertAll(_, _, _)
InsertAll(qubits, line, k) ==
    IF k > Len(line) THEN qubits
    ELSE LET nx == Insert(qubits, line[k])
         IN  CASE nx = nx -> InsertAll(nx, line, k + 1)

\* A line with ".v " in front declares the labels after it
IsDeclaration(line) == line[1] = ".v" /\ Len(line) > 1

\* The body of the loop over the lines; an error ends the parse
QcLine(st, line) ==
    IF st.err # "" \/ line[1] \in Skipped THEN st
    ELSE IF IsDeclaration(line)
    THEN [st EXCEPT !.qubits = InsertAll(st.qubits, line, 2)]
    ELSE LET gate == line[1]
             labels == Tail(line)
         IN  IF \E k \in 1..Len(labels) : labels[k] \notin DOMAIN st.qubits
             THEN [st EXCEPT !.err = "Unexpected qubit label"]
             ELSE IF Arity(gate) = NoArity
             THEN [st EXCEPT !.err = "Unknown gate name"]
             ELSE IF Len(labels) # Arity(gate)
             THEN [st EXCEPT !.err = "Unexpected arity"]
             ELSE [st EXCEPT !.gates =
                       Append(@, Con(gate, [k \in 1..Len(labels) |-> st.qubits[labels[k]]]))]

RECURSIVE QcLines(_, _, _)
QcLines(st, text, k) ==
    IF k > Len(text) THEN st
    ELSE LET nx == QcLine(st, text[k])
         IN  CASE nx = nx -> QcLines(nx, text, k + 1)

\* Circuit::from_qc: Ok(circuit) or Err(message), with the label map the
\* parse ended with
FromQc(text) ==
    LET st == QcLines([qubits |-> << >>, gates |-> << >>, err |-> ""], text, 1)
    IN  [ok |-> st.err = "", gates |-> IF st.err = "" THEN st.gates ELSE << >>,
         err |-> st.err, qubits |-> st.qubits]

MaxLines == 3

TextLines ==
    {<<".v", "a", "b">>, <<".v", "a", "b", "a", "c">>, <<".v", "a", "a">>, <<".v", "c">>,
     <<"BEGIN">>, <<"T", "a">>, <<"cnot", "a", "c">>, <<"cnot", "a">>, <<"H", "a", "b">>,
     <<"foo", "a">>, <<"T", "z">>, <<"cz", "b", "a">>}

InitQc ==
    /\ pc = "text"
    /\ original = << >>
    /\ gates = << >>
    /\ front = << >>
    /\ back = << >>
    /\ blocks = << >>
    /\ blocks0 = << >>
    /\ budget = 0
    /\ ret = 0
    /\ CanonUnset

PushLine(line) ==
    /\ pc = "text"
    /\ Len(source) < MaxLines
    /\ source' = Append(source, line)
    /\ UNCHANGED <<pc, original, gates, partVars, canonVars, corrVars, lateVars, hadVars, parsed,
                   compVars>>

DoFromQc ==
    /\ pc = "text"
    /\ parsed' = FromQc(source)
    /\ pc' = "parsed"
    /\ UNCHANGED <<original, gates, partVars, canonVars, corrVars, lateVars, hadVars, source,
                   compVars>>

NextQc ==
    \/ \E line \in TextLines : PushLine(line)
    \/ DoFromQc

SpecQc == InitQc /\ [][NextQc]_vars

------------------------------------------------------------------------------
(* compile.rs: the loop of main over the parsed inputs, one action per     *)
(* stage.  An input is the number of qubits of its circuit; whether the ZX *)
(* simplifier gives a circuit back is decided by the library.  ran lists   *)
(* the stages run on the current input and the circuit each was run on.    *)

MaxInputs == 2

None == [some |-> FALSE]
Some(v) == [some |-> TRUE, v |-> v]

CompileArgs ==
    [zx_preopt : BOOLEAN, verify : BOOLEAN, qubits : {None, Some(1), Some(2)}]

CompileInputs ==
    UNION {[1..n -> [qubits : 1..3]] : n \in 0..MaxInputs}

Stages(r) == {r[k].stage : k \in 1..Len(r)}

\* The circuit the next stage works on: the simplifier's once it returned one
Circuit == IF "zx_preopt" \in Stages(ran) /\ ~failed THEN "simplified" ELSE "unsimplified"

Stage(name) == [stage |-> name, on |-> Circuit]

Verified(stages) == IF args.verify THEN Append(stages, Stage("verify")) ELSE stages

InitCompile ==
    /\ pc = "next"
    /\ args \in CompileArgs
    /\ circuits \in CompileInputs
    /\ failed = FALSE
    /\ ran = << >>
    /\ logfile = << >>
    /\ original = << >>
    /\ gates = << >>
    /\ front = << >>
    /\ back = << >>
    /\ blocks = << >>
    /\ blocks0 = << >>
    /\ budget = 0
    /\ ret = 0
    /\ TraceUnset
    /\ ResynthUnset
    /\ HadUnset
    /\ QcUnset
    /\ before = << >>
    /\ xswaps = << >>
    /\ cliffords = << >>
    /\ map = << >>
    /\ matrix = EmptyMatrix
    /\ circ1 = Null
    /\ circ2 = Null
    /\ orig = EmptyMatrix
    /\ correction = << >>

\* The head of the loop body: an input above the qubit budget is skipped
StartInput ==
    /\ pc = "next"
    /\ circuits # << >>
    /\ circuits' = Tail(circuits)
    /\ failed' = FALSE
    /\ IF args.qubits.some /\ args.qubits.v < Head(circuits).qubits
       THEN /\ ran' = <<[stage |-> "skip", on |-> "unsimplified"]>>
            /\ pc' = "next"
       ELSE /\ ran' = << >>
            /\ pc' = IF args.zx_preopt THEN "zx_preopt" ELSE "move_h_optimal"
    /\ UNCHANGED <<original, gates, partVars, canonVars, corrVars, lateVars, hadVars, qcVars,
                   args, logfile>>

\* if args.zx_preopt: when graph.to_circuit() gives no circuit failed is
\* set and the loop continues with the next input
ZxPreopt(ok) ==
    /\ pc = "zx_preopt"
    /\ failed' = ~ok
    /\ IF ok
       THEN /\ ran' = IF args.verify
                      THEN ran \o <<[stage |-> "zx_preopt", on |-> "unsimplified"],
                                    [stage |-> "verify", on |-> "simplified"]>>
                      ELSE Append(ran, [stage |-> "zx_preopt", on |-> "unsimplified"])
            /\ pc' = "move_h_optimal"
       ELSE /\ ran' = Append(ran, [stage |-> "zx_preopt", on |-> "unsimplified"])
            /\ pc' = "next"
    /\ UNCHANGED <<original, gates, partVars, canonVars, corrVars, lateVars, hadVars, qcVars,
                   args, circuits, logfile>>

MoveHOptimal ==
    /\ pc = "move_h_optimal"
    /\ ran' = Verified(Append(ran, Stage("move_h_optimal")))
    /\ pc' = "partition"
    /\ UNCHANGED <<original, gates, partVars, canonVars, corrVars, lateVars, hadVars, qcVars,
                   args, circuits, failed, logfile>>

\* partition, pick_gadgets and to_cnot_phase
Gadgetize ==
    /\ pc = "partition"
    /\ ran' = Verified(ran \o <<Stage("partition"), Stage("pick_gadgets"),
                                 Stage("to_cnot_phase")>>)
    /\ pc' = "extract_gadgets"
    /\ UNCHANGED <<original, gates, partVars, canonVars, corrVars, lateVars, hadVars, qcVars,
                   args, circuits, failed, logfile>>

Extract ==
    /\ pc = "extract_gadgets"
    /\ ran' = Verified(Append(ran, Stage("extract_gadgets")))
    /\ pc' = "output"
    /\ UNCHANGED <<original, gates, partVars, canonVars, corrVars, lateVars, hadVars, qcVars,
                   args, circuits, failed, logfile>>

\* The block, mapping and matrix outputs, and logfile.files.push(filestats)
Output ==
    /\ pc = "output"
    /\ ran' = Append(ran, Stage("output"))
    /\ logfile' = Append(logfile, [zx_preopt |-> "zx_preopt" \in Stages(ran)])
    /\ pc' = "next"
    /\ UNCHANGED <<original, gates, partVars, canonVars, corrVars, lateVars, hadVars, qcVars,
                   args, circuits, failed>>

\* After the last input the log is written
Finish ==
    /\ pc = "next"
    /\ circuits = << >>
    /\ pc' = "done"
    /\ UNCHANGED <<original, gates, partVars, canonVars, corrVars, lateVars, hadVars, qcVars,
                   compVars>>

NextCompile ==
    \/ StartInput
    \/ \E ok \in BOOLEAN : ZxPreopt(ok)
    \/ MoveHOptimal
    \/ Gadgetize
    \/ Extract
    \/ Output
    \/ Finish

SpecCompile == InitCompile /\ [][NextCompile]_vars

------------------------------------------------------------------------------
(* resynth.rs: main.  An input is a record of what its three files hold:   *)
(* matrix is None when the decomposition cannot be loaded; orig and map    *)
(* are None when the command line names no such files, Some(None) when the *)
(* file cannot be read, and otherwise hold what was read.  The qasm output *)
(* is modelled by the gates of the circuit written.                        *)

MaxFiles == 2

\* Vec::dedup that removes nothing
DedupNone(s) == s

\* Vec::dedup: each run of equal neighbours is reduced to its first element
Dedup(s) ==
    LET kept == SelectSeq([k \in 1..Len(s) |->
                              [keep |-> k = 1 \/ s[k] # s[k - 1], v |-> s[k]]],
                          LAMBDA e : e.keep)
    IN  [k \in 1..Len(kept) |-> kept[k].v]

ResynthMatrices ==
    {[n |-> 3, cols |-> <<[i \in 0..2 |-> i # 1]>>],
     [n |-> 3, cols |-> <<[i \in 0..2 |-> i # 2], [i \in 0..2 |-> FALSE]>>],
     [n |-> 2, cols |-> <<[i \in 0..1 |-> TRUE]>>]}

\* What a mapping file may hold
ResynthMappings == {<<0, 1, 2>>, <<0, 1, 0>>, <<0, 0, 1>>, <<1, 0>>}

ResynthInputs(with_orig, with_map) ==
    [matrix : {None} \cup {Some(a) : a \in ResynthMatrices},
     orig : IF with_orig
            THEN {Some(None)} \cup {Some(Some(a)) : a \in ResynthMatrices}
            ELSE {None},
     map : IF with_map
           THEN {Some(None)} \cup {Some(Some(q)) : q \in ResynthMappings}
           ELSE {None}]

Skip(msg) == [ok |-> FALSE, msg |-> msg]

\* The body of the loading loop for the input f, the i-th of the command
\* line: the message of the check that rejects it, or the value pushed
Load(f, i) ==
    LET n == f.matrix.v.n
        q == f.map.v.v
    IN  IF ~f.matrix.some THEN Skip("failed to load matrix")
        ELSE IF f.orig.some /\ ~f.orig.v.some THEN Skip("failed to load matrix")
        ELSE IF f.orig.some /\ f.orig.v.v.n # n THEN Skip("wrong shape")
        ELSE IF f.map.some /\ ~f.map.v.some THEN Skip("failed to read qubit mapping")
        ELSE IF f.map.some /\ Len(q) # n THEN Skip("wrong size")
        ELSE IF f.map.some /\ Len(Dedup(q)) # Len(q) THEN Skip("not unique")
        ELSE [ok |-> TRUE,
              value |-> [input |-> i, matrix |-> f.matrix.v,
                         orig |-> IF f.orig.some THEN f.orig.v ELSE None,
                         map |-> IF f.map.some THEN Dedup(q)
                                 ELSE [r \in 1..n |-> r - 1]]]

InitResynth ==
    /\ pc = "load"
    /\ \E with_orig, with_map \in BOOLEAN :
          files \in UNION {[1..k -> ResynthInputs(with_orig, with_map)] : k \in 1..MaxFiles}
    /\ \E gadgets \in BOOLEAN : invocation = [gadgets |-> gadgets, files |-> files]
    /\ values = << >>
    /\ report = << >>
    /\ written = << >>
    /\ original = << >>
    /\ gates = << >>
    /\ front = << >>
    /\ back = << >>
    /\ blocks = << >>
    /\ blocks0 = << >>
    /\ budget = 0
    /\ ret = 0
    /\ HadUnset
    /\ QcUnset
    /\ CompUnset
    /\ TraceUnset
    /\ before = << >>
    /\ xswaps = << >>
    /\ cliffords = << >>
    /\ map = << >>
    /\ matrix = EmptyMatrix
    /\ circ1 = Null
    /\ circ2 = Null
    /\ orig = EmptyMatrix
    /\ correction = << >>

\* One pass of the first loop; after the last input the second loop begins
LoadFile ==
    /\ pc = "load"
    /\ files # << >>
    /\ LET i == Len(invocation.files) - Len(files) + 1
           r == Load(Head(files), i)
       IN  IF r.ok
           THEN values' = Append(values, r.value) /\ UNCHANGED report
           ELSE report' = Append(report, [input |-> i, msg |-> r.msg])
                /\ UNCHANGED values
    /\ files' = Tail(files)
    /\ pc' = IF Tail(files) = << >> THEN "synth" ELSE "load"
    /\ UNCHANGED <<original, gates, partVars, canonVars, corrVars, hadVars, qcVars,
                   compVars, traceVars, invocation, written>>

\* One pass of the second loop: the zero-column and signature checks, the
\* synthesis, the Clifford correction and the push of the file statistics
SynthValue ==
    /\ pc = "synth"
    /\ values # << >>
    /\ values' = Tail(values)
    /\ LET v == Head(values)
           c == Synthesize(v.matrix, v.map, invocation.gadgets)
           corr == IF v.orig.some THEN CliffordCorrection(v.matrix, v.orig.v, v.map)
                   ELSE << >>
       IN  IF HasZeroColumns(v.matrix)
           THEN /\ report' = Append(report, [input |-> v.input, msg |-> "all-zero columns"])
                /\ UNCHANGED <<pc, written>>
           ELSE IF v.orig.some
                   /\ FindSignatureTensor(v.matrix) # FindSignatureTensor(v.orig.v)
           THEN /\ report' = Append(report, [input |-> v.input,
                                             msg |-> "signature tensors don't match"])
                /\ UNCHANGED <<pc, written>>
           ELSE IF c.panic
           THEN pc' = "panic" /\ UNCHANGED <<report, written>>
           ELSE /\ written' = Append(written,
                                     [input |-> v.input, mapping |-> v.map,
                                      gates |-> c.gates \o corr,
                                      nccz |-> c.nccz, ncs |-> c.ncs, nt |-> c.nt])
                /\ UNCHANGED <<pc, report>>
    /\ UNCHANGED <<original, gates, partVars, canonVars, corrVars, hadVars, qcVars,
                   compVars, traceVars, invocation, files>>

\* After the last value the log is written
FinishResynth ==
    /\ pc = "synth"
    /\ values = << >>
    /\ pc' = "done"
    /\ UNCHANGED <<original, gates, partVars, canonVars, corrVars, hadVars, qcVars,
                   compVars, lateVars>>

NextResynth ==
    \/ LoadFile
    \/ SynthValue
    \/ FinishResynth

SpecResynth == InitResynth /\ [][NextResynth]_vars

------------------------------------------------------------------------------
(* Claims about partitioning and block merging *)

Touches(g, q) == \E k \in 1..3 : GateQubits(g)[k] = q

TouchedQubits(gs) == UNION {{GateQubits(gs[i])[k] : k \in 1..3} : i \in 1..Len(gs)}

\* Two gate sequences hold the same gates and order every two gates that
\* share a qubit the same way: their projections onto every qubit agree.
SameUpToCommutation(c, d) ==
    /\ Len(c) = Len(d)
    /\ \A q \in TouchedQubits(c) \cup TouchedQubits(d) :
          SelectSeq(c, LAMBDA g : Touches(g, q)) = SelectSeq(d, LAMBDA g : Touches(g, q))

\* C1: partition followed by merge (with or without pick_gadgets in between,
\* for any budget and iteration count) gives back the gates of the circuit,
\* with every two gates that share a qubit in their original relative order.
C1_PartitionMerge == pc = "merged" => SameUpToCommutation(original, gates)

\* C1 witness: a circuit whose gates were really reordered, whose three
\* blocks were merged into one by pick_gadgets, and that was reassembled
C1_Witness ==
    /\ pc = "merged"
    /\ gates # original
    /\ Len(front) > 0
    /\ Len(blocks0) = 3
    /\ Len(blocks) = 1

\* C7: every block pick_gadgets leaves has Hadamard cost within the budget,
\* unless it is a block of the input list, left as it was.
C7_BudgetRespected ==
    pc = "picked" =>
        \A k \in 1..Len(blocks) :
            \/ CountHadamards(blocks[k]) <= budget
            \/ \E j \in 1..Len(blocks0) :
                  /\ blocks0[j] = blocks[k]
                  /\ CountHadamards(blocks0[j]) > budget

\* C7 witness: a call that merged some blocks and left an over-budget block
C7_Witness ==
    /\ pc = "picked"
    /\ Len(blocks) < Len(blocks0)
    /\ \E k \in 1..Len(blocks) : CountHadamards(blocks[k]) > budget
    /\ \E k \in 1..Len(blocks) : CountHadamards(blocks[k]) = budget /\ budget > 0

\* C8 as stated: the first scenario partitions into front = [H(0)], one
\* block [CNOT(0,1), Phase(T,1), CNOT(0,1)] and back = [H(0)].
C8_Original ==
    (pc = "partitioned" /\ original = Scenario1) =>
        /\ front = <<H(0)>>
        /\ blocks = <<(<<CNOT(0, 1), Phase(PhaseT, 1), CNOT(0, 1)>>)>>
        /\ back = <<H(0)>>

\* C8 amended: both CNOT(0,1) are Clifford and unobstructed once the H(0)
\* next to them is pulled, so they are extracted too: front = [H(0),
\* CNOT(0,1)], one block [Phase(T,1)], back = [CNOT(0,1), H(0)].
C8_Scenario ==
    (pc = "partitioned" /\ original = Scenario1) =>
        /\ front = <<H(0), CNOT(0, 1)>>
        /\ blocks = <<(<<Phase(PhaseT, 1)>>)>>
        /\ back = <<CNOT(0, 1), H(0)>>

C8_Witness == pc = "partitioned" /\ original = Scenario1 /\ Len(blocks) = 1

------------------------------------------------------------------------------
(* Claims about canonicalization, extraction and re-synthesis *)

HasOp(gs, op) == \E i \in 1..Len(gs) : gs[i].op = op

\* C2: for an H-free circuit C, the gates to_cnot_phase leaves followed by
\* the circuit it returns act on every basis state as C did, up to one
\* global phase.
C2_CnotPhaseEquivalent ==
    pc = "cnot_phase" => SameUpToGlobalPhase(original, gates \o xswaps)

\* C2 witness: a circuit with an X in front of a rewritten multi-qubit gate,
\* whose X had to be propagated and left a trailing correction
C2_Witness ==
    /\ pc = "cnot_phase"
    /\ HasOp(original, "X")
    /\ HasOp(original, "CCZ") \/ HasOp(original, "CS")
    /\ HasOp(original, "SWAP") \/ HasOp(original, "CNOT")
    /\ Len(xswaps) > 0
    /\ LET nox == SelectSeq(original, LAMBDA g : g.op # "X")
       IN  gates # Decompose(nox, Len(nox))

\* The block of the first scenario, and the single gate of the second
Scenario1Block == <<CNOT(0, 1), Phase(PhaseT, 1), CNOT(0, 1)>>
Scenario2 == <<CCZ(0, 1, 2)>>

CountOp(gs, op) == Cardinality({i \in 1..Len(gs) : gs[i].op = op})

\* C3: for a CNOT+Phase block B, the gates extract_gadgets leaves in B
\* followed by the Clifford block it returns act on every basis state
\* exactly as B did: the same bits and the same phase mod 8.
C3_ExtractEquivalent ==
    pc = "extracted" => SameAction(before, gates \o cliffords)

\* C3 witness: a block with CNOTs, a non-Clifford phase other than T (so a
\* Clifford remainder was split off) fired on a parity of several qubits
C3_Witness ==
    /\ pc = "extracted"
    /\ HasOp(before, "CNOT")
    /\ \E i \in 1..Len(before) : before[i].op = "Phase" /\ before[i].p \in {3, 5, 7}
    /\ Len(matrix.cols) >= 2
    /\ \E l \in 1..Len(matrix.cols) : Cardinality(SetRows(matrix.cols[l])) >= 2
    /\ HasOp(cliffords, "Phase")

\* C4: re-synthesis of the extracted matrix with gadgets disabled yields
\* exactly the gate sequence extract_gadgets left in the block.
C4_ResynthReproduces ==
    (pc = "resynth" /\ circ2 # Null) => (~circ2.panic /\ circ2.gates = gates)

\* C4 witness: a block whose matrix lost a zero row, so that the map is not
\* the identity, and whose re-synthesis has CNOT fans
C4_Witness ==
    /\ pc = "resynth"
    /\ circ2 # Null
    /\ Len(map) < CircuitQubits(before)
    /\ \E r \in 1..Len(map) : map[r] # r - 1
    /\ HasOp(circ2.gates, "CNOT")
    /\ Len(matrix.cols) >= 2

\* C9 as stated: the block [CNOT(0,1), Phase(T,1), CNOT(0,1)] has the 2x1
\* matrix of ones with map [0,1], and re-synthesis with gadgets disabled
\* gives CNOT(0,1), Phase(T,1), CNOT(0,1) again.
C9_Original ==
    (pc = "resynth" /\ circ2 # Null /\ before = Scenario1Block) =>
        /\ matrix = [n |-> 2, cols |-> <<[r \in 0..1 |-> TRUE]>>]
        /\ map = <<0, 1>>
        /\ circ2.gates = Scenario1Block

\* C9 amended: the matrix and the map are as stated, and re-synthesis gives
\* the three gates CNOT(1,0), Phase(T,0), CNOT(1,0): the phase sits on the
\* first set row of the column, qubit 0, and the other row fans into it.
C9_Scenario ==
    (pc = "resynth" /\ circ2 # Null /\ before = Scenario1Block) =>
        /\ matrix = [n |-> 2, cols |-> <<[r \in 0..1 |-> TRUE]>>]
        /\ map = <<0, 1>>
        /\ circ2.gates = <<CNOT(1, 0), Phase(PhaseT, 0), CNOT(1, 0)>>
        /\ SameAction(circ2.gates, Scenario1Block)

C9_Witness == pc = "resynth" /\ circ2 # Null /\ before = Scenario1Block

\* C10: CCZ(0,1,2), canonicalized, extracted (7 columns) and re-synthesized
\* with gadget matching gives one CCZ, three CZ and three Phase(Z) as the
\* only gates besides CNOTs, and the counters (1, 0, 0).
C10_CczCollapses ==
    (pc = "resynth" /\ circ1 # Null /\ original = Scenario2) =>
        /\ Len(matrix.cols) = 7
        /\ ~circ1.panic
        /\ CountOp(circ1.gates, "CCZ") = 1
        /\ CountOp(circ1.gates, "CZ") = 3
        /\ CountOp(circ1.gates, "Phase") = 3
        /\ \A i \in 1..Len(circ1.gates) :
              /\ circ1.gates[i].op \in {"CNOT", "CCZ", "CZ", "Phase"}
              /\ circ1.gates[i].op = "Phase" => circ1.gates[i].p = PhaseZ
        /\ <<circ1.nccz, circ1.ncs, circ1.nt>> = <<1, 0, 0>>

C10_Witness == pc = "resynth" /\ circ1 # Null /\ original = Scenario2

------------------------------------------------------------------------------
(* Claims about synthesis with and without gadget matching, and about the  *)
(* Clifford correction                                                     *)

\* A circuit that maps every basis state to itself
Diagonal(c, w) == \A x \in BasisStates(w) : Run(c, x).x = x

\* C5 as stated: for every matrix and injective map, synthesis with gadget
\* matching and synthesis without it both return a circuit, and the two
\* circuits apply the same phase to every basis state and leave it unchanged.
C5_Original ==
    pc = "synth" =>
        /\ ~circ1.panic
        /\ ~circ2.panic
        /\ SameAction(circ1.gates, circ2.gates)
        /\ Diagonal(circ1.gates, Width(circ1.gates, circ2.gates))
        /\ Diagonal(circ2.gates, Width(circ1.gates, circ2.gates))

\* C5 on matrices without an all-zero column (the inputs resynth's main
\* lets through): there the two syntheses do agree.
C5_NonzeroColumns ==
    (pc = "synth" /\ ~HasZeroColumns(matrix)) =>
        /\ ~circ1.panic
        /\ ~circ2.panic
        /\ SameAction(circ1.gates, circ2.gates)
        /\ Diagonal(circ1.gates, Width(circ1.gates, circ2.gates))
        /\ Diagonal(circ2.gates, Width(circ1.gates, circ2.gates))

\* Gadget matching made a difference: a CCZ and a CS gadget were emitted
\* through a map that is not the identity
C5_Witness ==
    /\ pc = "synth"
    /\ ~HasZeroColumns(matrix)
    /\ ~circ1.panic
    /\ circ1.nccz + circ1.ncs >= 1
    /\ circ1.nt >= 1
    /\ map # [r \in 1..matrix.n |-> r - 1]
    /\ circ1.gates # circ2.gates

\* The number of columns of a whose parity on the basis state x is 1
ColumnPhase(a, x) ==
    Cardinality({l \in 1..Len(a.cols) :
                    Cardinality({i \in 0..(a.n - 1) : a.cols[l][i] /\ x[i]}) % 2 = 1})

\* C6 as stated: for matrices a and b with the same rows and the same
\* signature tensor, C = clifford_correction(a, b, identity) satisfies
\* C*U(a) = U(b): on every basis state the columns of a of parity 1 plus the
\* phase C applies equal, mod 8, the columns of b of parity 1.
C6_Original ==
    (pc = "corrected" /\ FindSignatureTensor(matrix) = FindSignatureTensor(orig)) =>
        \A x \in BasisStates(matrix.n) :
            /\ Run(correction, x).x = x
            /\ (ColumnPhase(matrix, x) + Run(correction, x).ph) % 8
                   = ColumnPhase(orig, x) % 8

\* Two different matrices with the same signature tensor were corrected
C6_Witness ==
    /\ pc = "corrected"
    /\ matrix # orig
    /\ FindSignatureTensor(matrix) = FindSignatureTensor(orig)
    /\ Len(orig.cols) > 0

------------------------------------------------------------------------------
(* Shape of a partition *)

AllClifford(gs) == \A k \in 1..Len(gs) : IsClifford(gs[k])

\* C15: the blocks partition returns alternate: every even-index block of
\* the source (odd position here) contains no H gate, every odd-index block
\* contains only Clifford gates, and front and back contain only Clifford
\* gates.
C15_BlocksAlternate ==
    pc = "partitioned" =>
        /\ \A i \in 1..Len(blocks) :
              IF i % 2 = 1
              THEN \A k \in 1..Len(blocks[i]) : blocks[i][k].op # "H"
              ELSE AllClifford(blocks[i])
        /\ AllClifford(front)
        /\ AllClifford(back)

\* A partition with a functional, a Clifford and a second functional block
\* next to a non-empty front or back
C15_Witness ==
    /\ pc = "partitioned"
    /\ Len(blocks) >= 3
    /\ \A i \in 1..3 : Len(blocks[i]) > 0
    /\ Len(front) + Len(back) > 0

\* C18: after extract_cliffords the remaining circuit contains no Clifford
\* gate free of every earlier remaining gate and no Clifford gate free of
\* every later remaining gate.
C18_ExtractionMaximal ==
    pc = "cliffords" =>
        \A i \in 1..Len(gates) :
            IsClifford(gates[i]) =>
                /\ \E j \in 1..(i - 1) : Overlaps(gates[i], gates[j])
                /\ \E j \in (i + 1)..Len(gates) : Overlaps(gates[i], gates[j])

\* Cliffords were pulled and a Clifford gate stays behind, blocked on both
\* sides
C18_Witness ==
    /\ pc = "cliffords"
    /\ Len(front) + Len(back) > 0
    /\ \E i \in 1..Len(gates) : IsClifford(gates[i])

------------------------------------------------------------------------------
(* The replacement templates *)

Rewritten == {"CZ", "CS", "CCZ", "SWAP"}

\* C19: each sequence to_cnot_phase substitutes for CZ, CS, CCZ or SWAP
\* gives on every basis state the bits and the phase mod 8 of the gate it
\* replaces, with no global-phase offset, and the first loop rewrites every
\* such gate exactly once: the result is the concatenation of the gates'
\* templates and holds none of the four gates any more.
C19_TemplatesExact ==
    pc = "cnot_phase" =>
        LET ts == [i \in 1..Len(before) |-> Template(before[i])]
        IN  /\ \A i \in 1..Len(before) : SameAction(<<before[i]>>, ts[i])
            /\ Decompose(before, Len(before)) = Concat(ts)
            /\ ~HasOp(before, "X") => gates = Concat(ts)
            /\ \A k \in 1..Len(gates) : gates[k].op \notin Rewritten

\* A circuit of three different rewritten gates went through to_cnot_phase
C19_Witness ==
    /\ pc = "cnot_phase"
    /\ Cardinality({before[i].op : i \in 1..Len(before)} \cap Rewritten) >= 3
    /\ Len(gates) > Len(before)

------------------------------------------------------------------------------
(* The synthesis matrix of a block *)

\* The positions of the non-Clifford Phase gates of a circuit, in gate order
NonCliffordPhases(gs) ==
    Ascending({k \in 1..Len(gs) : gs[k].op = "Phase" /\ ~PhaseIsClifford(gs[k].p)})

\* The parity of input qubits that qubit q holds after the first k gates of
\* a CNOT+Phase circuit on n qubits: input i belongs to it when the basis
\* state with only bit i set leaves bit q set
ParityHeld(gs, k, q, n) ==
    [i \in 0..(n - 1) |-> Run(SubSeq(gs, 1, k), [r \in 0..(n - 1) |-> r = i]).x[q]]

\* C16: the matrix extract_gadgets returns for a CNOT+Phase block has one
\* column per non-Clifford Phase gate of the block, in gate order; column j
\* is the parity of input qubits the gate's qubit holds when the gate
\* fires; the rows that are zero in every column are removed; the returned
\* map lists the surviving original row indices in strictly ascending order
\* and is as long as the matrix has rows.
C16_MatrixColumns ==
    pc = "extracted" =>
        LET n == CircuitQubits(before)
            fired == NonCliffordPhases(before)
            full == [j \in 1..Len(fired) |->
                        ParityHeld(before, fired[j] - 1, before[fired[j]].qs[1], n)]
            kept == {i \in 0..(n - 1) : \E j \in 1..Len(fired) : full[j][i]}
        IN  /\ Len(matrix.cols) = Len(fired)
            /\ Len(map) = matrix.n
            /\ {map[r] : r \in 1..Len(map)} = kept
            /\ \A r \in 1..(Len(map) - 1) : map[r] < map[r + 1]
            /\ \A j \in 1..Len(fired) :
                  /\ DOMAIN matrix.cols[j] = 0..(matrix.n - 1)
                  /\ \A r \in 1..Len(map) : matrix.cols[j][r - 1] = full[j][map[r]]

\* A block whose CNOTs put a parity of two qubits under a non-Clifford
\* phase, with several columns, and with a low row pruned below a
\* surviving one
C16_Witness ==
    /\ pc = "extracted"
    /\ HasOp(before, "CNOT")
    /\ Len(matrix.cols) >= 2
    /\ \E l \in 1..Len(matrix.cols) : Cardinality(SetRows(matrix.cols[l])) >= 2
    /\ Len(map) > 0
    /\ Len(map) < CircuitQubits(before)
    /\ map[1] > 0

------------------------------------------------------------------------------
(* Matrices with the same signature tensor *)

RECURSIVE SumFn(_, _)
SumFn(f, S) ==
    IF S = {} THEN 0
    ELSE LET e == CHOOSE e \in S : TRUE
         IN  f[e] + SumFn(f, S \ {e})

\* The phase U(b) applies on basis state x beyond the phase U(a) applies,
\* mod 8
PhaseDifference(a, b, x) == (ColumnPhase(b, x) + 8 * Len(a.cols) - ColumnPhase(a, x)) % 8

\* The basis state whose set bits are the qubits of S
Indicator(n, S) == [i \in 0..(n - 1) |-> i \in S]

\* C17: when two matrices a and b with the same number of rows have the
\* same signature tensor, the difference of the phase functions of U(a) and
\* U(b) on basis states is a polynomial mod 8 with an even coefficient on
\* every single qubit, a coefficient in {0, 4} on every pair and no term of
\* higher degree.
C17_EqualTensorsCliffordApart ==
    (matrix.n = orig.n /\ FindSignatureTensor(matrix) = FindSignatureTensor(orig)) =>
        LET n == matrix.n
            pairs == {p \in (0..(n - 1)) \X (0..(n - 1)) : p[1] < p[2]}
            lin == [i \in 0..(n - 1) |-> PhaseDifference(matrix, orig, Indicator(n, {i}))]
            quad == [p \in pairs |->
                        (PhaseDifference(matrix, orig, Indicator(n, {p[1], p[2]}))
                            + 16 - lin[p[1]] - lin[p[2]]) % 8]
        IN  /\ \A i \in 0..(n - 1) : lin[i] % 2 = 0
            /\ \A p \in pairs : quad[p] \in {0, 4}
            /\ \A x \in BasisStates(n) :
                  PhaseDifference(matrix, orig, x)
                      = (SumFn(lin, {i \in 0..(n - 1) : x[i]})
                           + SumFn(quad, {p \in pairs : x[p[1]] /\ x[p[2]]})) % 8

\* Two matrices on three rows with the same signature tensor whose phase
\* functions differ, one of them with a column over all three rows
C17_Witness ==
    /\ matrix.n = 3
    /\ orig.n = 3
    /\ FindSignatureTensor(matrix) = FindSignatureTensor(orig)
    /\ \E l \in 1..Len(matrix.cols) : Cardinality(SetRows(matrix.cols[l])) = 3
    /\ \E x \in BasisStates(3) : PhaseDifference(matrix, orig, x) # 0
    /\ \E i \in 0..2 : \E j \in (i + 1)..2 :
          PhaseDifference(matrix, orig, Indicator(3, {i, j}))
              # (PhaseDifference(matrix, orig, Indicator(3, {i}))
                   + PhaseDifference(matrix, orig, Indicator(3, {j}))) % 8

------------------------------------------------------------------------------
(* Gadgetized partitions *)

\* C20 as stated: after PartitionedCircuit::to_cnot_phase every even-index
\* block (odd position here) consists solely of CNOT and Phase gates, and
\* each X correction returned for a block holds only X gates, at most one
\* per qubit.
C20_BlocksCnotPhase ==
    pc = "gadgetized" =>
        /\ \A i \in 1..Len(blocks) :
              i % 2 = 1 =>
                  \A k \in 1..Len(blocks[i]) : blocks[i][k].op \in {"CNOT", "Phase"}
        /\ \A c \in 1..Len(corrections) :
              /\ \A k \in 1..Len(corrections[c]) : corrections[c][k].op = "X"
              /\ \A k, l \in 1..Len(corrections[c]) :
                    corrections[c][k].qs[1] = corrections[c][l].qs[1] => k = l

\* A merged block with a Hadamard and an X was gadgetized and returned a
\* correction
C20_Witness ==
    /\ pc = "gadgetized"
    /\ Len(ancillas) > 0
    /\ \E i \in 1..Len(call.blocks) :
          i % 2 = 1 /\ HasOp(call.blocks[i], "H") /\ HasOp(call.blocks[i], "X")
    /\ \E c \in 1..Len(corrections) : Len(corrections[c]) > 0

\* The qubits the partition touched when to_cnot_phase was called
CallQubits == TouchedQubits(call.front \o Concat(call.blocks) \o call.back)

\* C12 as stated: every ancilla index allocated for a Hadamard gadget is
\* fresh: no index is allocated twice within the run, and none is a qubit
\* touched by a gate of front, back or a block at the time of the call.
C12_Original ==
    pc = "gadgetized" =>
        /\ \A k, l \in 1..Len(ancillas) : ancillas[k] = ancillas[l] => k = l
        /\ \A k \in 1..Len(ancillas) : ancillas[k] \notin CallQubits

\* C12, the part that holds: no index is allocated twice within the run,
\* and none is a qubit touched by a gate of a block at the time of the call.
C12_FreshAmongBlocks ==
    pc = "gadgetized" =>
        /\ \A k, l \in 1..Len(ancillas) : ancillas[k] = ancillas[l] => k = l
        /\ \A k \in 1..Len(ancillas) : ancillas[k] \notin TouchedQubits(Concat(call.blocks))

\* Gadgets were allocated in two different blocks of one run
C12_Witness ==
    /\ pc = "gadgetized"
    /\ Len(ancillas) >= 2
    /\ Cardinality({i \in 1..Len(call.blocks) : HasOp(call.blocks[i], "H") /\ i % 2 = 1}) >= 2

------------------------------------------------------------------------------
(* Hadamard gadgets *)

\* The gates decomp_hads leaves for gate i of the original circuit when the
\* counter started at counter: SWAP and CZ with the next ancilla for an H
GadgetFor(c, i, counter) ==
    IF c[i].op = "H"
    THEN LET n == counter + CountHadamards(SubSeq(c, 1, i - 1))
         IN  <<SWAP(n, c[i].qs[1]), CZ(n, c[i].qs[1])>>
    ELSE <<c[i]>>

\* C11: decomp_hads run with a counter starting above the circuit's qubits
\* and empty front and back replaces each H(q) by SWAP(n, q), CZ(n, q) and
\* adds one H(n) to front and one to back; front, the rewritten circuit and
\* back concatenated realize the circuit's unitary on its original qubits,
\* up to a scalar, when every ancilla is input as 0 and post-selected on 0.
C11_GadgetsReproduce ==
    pc = "gadgets" =>
        LET hs == [k \in 1..CountHadamards(original) |-> H(call.next_id + k - 1)]
        IN  /\ before = Concat([i \in 1..Len(original) |->
                                    GadgetFor(original, i, call.next_id)])
            /\ front = hs
            /\ back = hs
            /\ gates = front \o before \o back
            /\ SameOnOriginalQubits(original, gates)

\* A circuit with two Hadamards, one of them between a CNOT or a phase and
\* the end, was gadgetized onto two ancillas
C11_Witness ==
    /\ pc = "gadgets"
    /\ Len(ancillas) >= 2
    /\ CircuitQubits(original) = 2
    /\ HasOp(original, "CNOT") \/ HasOp(original, "Phase")

------------------------------------------------------------------------------
(* Malformed .qc texts *)

\* The lines of a text that name a gate
GateLines(text) ==
    {i \in 1..Len(text) : text[i][1] \notin Skipped /\ ~IsDeclaration(text[i])}

\* The labels declared by the lines before line i, in order
DeclaredBefore(text, i) ==
    Concat([j \in 1..(i - 1) |-> IF IsDeclaration(text[j]) THEN Tail(text[j]) ELSE << >>])

UnknownMnemonic(text) == \E i \in GateLines(text) : Arity(text[i][1]) = NoArity

WrongArity(text) ==
    \E i \in GateLines(text) :
        Arity(text[i][1]) # NoArity /\ Len(text[i]) - 1 # Arity(text[i][1])

UndeclaredLabel(text) ==
    \E i \in GateLines(text) : \E k \in 2..Len(text[i]) :
        \A d \in 1..Len(DeclaredBefore(text, i)) : DeclaredBefore(text, i)[d] # text[i][k]

RepeatedDeclaration(text) ==
    LET ds == DeclaredBefore(text, Len(text) + 1)
    IN  \E k, l \in 1..Len(ds) : k # l /\ ds[k] = ds[l]

\* No two labels of the map share a qubit index
LabelsApart(qubits) ==
    \A k, l \in DOMAIN qubits : qubits[k] = qubits[l] => k = l

\* C14 as stated: from_qc returns an error whenever the text holds a gate
\* line with an unknown mnemonic, a gate with the wrong number of arguments,
\* a gate argument that is not a declared label, or a declaration that
\* repeats a label; and two distinct labels are never mapped to the same
\* qubit index.
C14_Original ==
    pc = "parsed" =>
        /\ (UnknownMnemonic(source) \/ WrongArity(source) \/ UndeclaredLabel(source)
               \/ RepeatedDeclaration(source)) => ~parsed.ok
        /\ LabelsApart(parsed.qubits)

\* C14, the part that holds: an unknown mnemonic, a wrong number of
\* arguments and an undeclared label each make from_qc return an error, and
\* a text that repeats no label maps distinct labels to distinct indices.
C14_GateErrorsRejected ==
    pc = "parsed" =>
        /\ (UnknownMnemonic(source) \/ WrongArity(source) \/ UndeclaredLabel(source))
               => ~parsed.ok
        /\ ~RepeatedDeclaration(source) => LabelsApart(parsed.qubits)

\* A text that repeats a label was parsed into a circuit whose gate uses
\* two labels mapped to one qubit
C14_Witness ==
    /\ pc = "parsed"
    /\ RepeatedDeclaration(source)
    /\ parsed.ok
    /\ ~LabelsApart(parsed.qubits)
    /\ \E k \in 1..Len(parsed.gates) :
          parsed.gates[k].op = "CNOT" /\ parsed.gates[k].qs[1] = parsed.gates[k].qs[2]

------------------------------------------------------------------------------
(* Failure of the ZX pre-optimization *)

\* The stages after the pre-optimization
RemainingStages ==
    {"move_h_optimal", "partition", "pick_gadgets", "to_cnot_phase", "extract_gadgets",
     "output"}

\* The loop is through with the input it took last
InputDone == pc \in {"next", "done"} /\ ran # << >>

\* C13 as stated: when ZX pre-optimization is enabled and the simplifier
\* returns no circuit, compilation of the input is not aborted: Hadamard
\* optimization, partition, gadgetization, extraction and output still run,
\* on the unsimplified circuit.
C13_Original ==
    (InputDone /\ failed) =>
        \A s \in RemainingStages :
            \E k \in 1..Len(ran) : ran[k].stage = s /\ ran[k].on = "unsimplified"

\* What holds: an input within the qubit budget whose pre-optimization is
\* disabled or returns a circuit goes through every remaining stage, and
\* an input whose pre-optimization fails goes through none and is not
\* logged.
C13_StagesRunUnlessFailed ==
    InputDone =>
        IF failed
        THEN Stages(ran) = {"zx_preopt"}
        ELSE "skip" \in Stages(ran) \/ RemainingStages \subseteq Stages(ran)

\* The pre-optimization failed on the second input after the first went
\* through
C13_Witness ==
    /\ pc = "next"
    /\ failed
    /\ args.zx_preopt
    /\ Len(logfile) = 1
    /\ Stages(ran) = {"zx_preopt"}

------------------------------------------------------------------------------
(* pick_gadgets: the gates kept and the merges left *)

\* The block list got from bs by joining the blocks between the cuts of S:
\* a cut at c ends a group with block c
Grouped(bs, S) ==
    LET ends == Ascending(S \cup {Len(bs)})
    IN  [k \in 1..Len(ends) |->
            Concat(SubSeq(bs, (IF k = 1 THEN 0 ELSE ends[k - 1]) + 1, ends[k]))]

\* nbs lists contiguous runs of bs, joined, in order and without a gap
ContiguousRuns(bs, nbs) ==
    IF bs = << >> THEN nbs = << >>
    ELSE \E S \in SUBSET (1..(Len(bs) - 1)) : nbs = Grouped(bs, S)

\* C25: a call of pick_gadgets, for any budget and iters, leaves the
\* concatenation of the blocks as it was, makes every new block a contiguous
\* run of the old ones, leaves front and back alone, and returns the new
\* number of blocks, which is at most the old number and of the same parity.
C25_PickKeepsGates ==
    [][pc' = "picked" =>
          /\ Concat(blocks') = Concat(blocks)
          /\ ContiguousRuns(blocks, blocks')
          /\ front' = front
          /\ back' = back
          /\ ret' = Len(blocks')
          /\ ret' <= Len(blocks)
          /\ ret' % 2 = Len(blocks) % 2]_vars

\* C25 witness: a call between a front and a back that joined five blocks
\* into three
C25_Witness ==
    /\ pc = "picked"
    /\ front # << >>
    /\ back # << >>
    /\ Len(blocks0) = 5
    /\ ret = 3
    /\ Len(blocks) = 3
    /\ Concat(blocks) = Concat(blocks0)

\* The Hadamard costs of a block list
Costs(bs) == [k \in 1..Len(bs) |-> CountHadamards(bs[k])]

\* The first of the attempts that ended with the fewest blocks
FirstBest ==
    CHOOSE k \in 1..Len(attempts) :
        /\ \A j \in 1..Len(attempts) : Len(attempts[k]) <= Len(attempts[j])
        /\ \A j \in 1..(k - 1) : Len(attempts[j]) > Len(attempts[k])

\* C26: every search attempt ends with no acceptable merge; so after a call
\* with at least one attempt on an odd number of blocks no odd index i has
\* cost(blocks[i-1]) + cost(blocks[i]) + cost(blocks[i+1]) <= budget, and
\* the list kept is that of the first attempt with the fewest blocks.
C26_NoMergeLeft ==
    pc = "picked" =>
        /\ \A k \in 1..Len(attempts) :
              \A i \in Junctions(attempts[k]) : ~Acceptable(attempts[k], i, budget)
        /\ (attempts # << >> /\ Len(blocks0) % 2 = 1) =>
              /\ \A i \in 1..(Len(blocks) - 2) :
                    i % 2 = 1 =>
                       Costs(blocks)[i] + Costs(blocks)[i + 1] + Costs(blocks)[i + 2]
                           > budget
              /\ blocks = IF Len(attempts[FirstBest]) < Len(blocks0)
                          THEN Regroup(blocks0, attempts[FirstBest])
                          ELSE blocks0

\* C26 witness: two attempts on five blocks that ended with different lists
\* of three blocks, the first of which was kept
C26_Witness ==
    /\ pc = "picked"
    /\ Len(blocks0) = 5
    /\ Len(attempts) = 2
    /\ Len(attempts[1]) = 3
    /\ Len(attempts[2]) = 3
    /\ attempts[1] # attempts[2]
    /\ blocks = Regroup(blocks0, attempts[1])
    /\ blocks # Regroup(blocks0, attempts[2])

------------------------------------------------------------------------------
(* The partitioned pipeline: where the corrections go *)

\* The H gates decomp_had pushed for the ancillas ids
AncillaHads(ids) == [k \in 1..Len(ids) |-> H(ids[k])]

\* xs is the beginning of circuit c
StartsWith(c, xs) == Len(xs) <= Len(c) /\ SubSeq(c, 1, Len(xs)) = xs

\* C29: partition returns no block or an odd number of blocks, none empty,
\* so the first and the last block hold no H; and after to_cnot_phase and
\* after extract_gadgets the correction of the last block is at the front of
\* back.
C29_OddBlocks ==
    /\ pc = "partitioned" =>
          /\ Len(blocks) = 0 \/ Len(blocks) % 2 = 1
          /\ original = << >> => blocks = << >>
          /\ \A i \in 1..Len(blocks) : blocks[i] # << >>
          /\ blocks # << >> =>
                /\ CountHadamards(blocks[1]) = 0
                /\ CountHadamards(blocks[Len(blocks)]) = 0
    /\ (pc = "gadgetized" /\ blocks # << >>) =>
          /\ Len(corrections) = (Len(blocks) + 1) \div 2
          /\ back = corrections[1] \o call.back \o AncillaHads(ancillas)
    /\ (pc = "matrices" /\ blocks # << >>) =>
          /\ Len(extracted) = (Len(blocks) + 1) \div 2
          /\ back = extracted[Len(extracted)].cliffords \o corrections[1]
                       \o call.back \o AncillaHads(ancillas)

\* C29 witness: three blocks whose last sent an X correction and then a
\* Clifford correction to back
C29_Witness ==
    /\ pc = "matrices"
    /\ Len(blocks) = 3
    /\ corrections[1] # << >>
    /\ extracted[Len(extracted)].cliffords # << >>
    /\ StartsWith(back, extracted[Len(extracted)].cliffords \o corrections[1])

\* C21: to_cnot_phase and extract_gadgets put the correction of the block at
\* even index i at the very front of blocks[i+1], or of back when i is the
\* last index, ahead of everything already there, and change no Clifford
\* block in any other way.
C21_CorrectionsInFront ==
    [][LET n == Len(blocks)
       IN  /\ pc' = "gadgetized" =>
                 /\ Len(blocks') = n
                 /\ \A p \in 1..n :
                       p % 2 = 0 =>
                          blocks'[p] = corrections'[(n - (p - 1)) \div 2 + 1] \o blocks[p]
                 /\ n % 2 = 1 =>
                       back' = corrections'[1] \o back \o AncillaHads(ancillas')
           /\ pc' = "matrices" =>
                 /\ Len(blocks') = n
                 /\ \A p \in 1..n :
                       p % 2 = 0 => blocks'[p] = extracted'[p \div 2].cliffords \o blocks[p]
                 /\ n % 2 = 1 =>
                       back' = extracted'[(n + 1) \div 2].cliffords \o back]_vars

\* C21 witness: a Clifford block that begins with the extraction correction
\* of the block before it, then that block's X correction, then its own gates
C21_Witness ==
    /\ pc = "matrices"
    /\ Len(blocks) = 3
    /\ extracted[1].cliffords # << >>
    /\ corrections[2] # << >>
    /\ blocks[2] = extracted[1].cliffords \o corrections[2] \o call.blocks[2]

------------------------------------------------------------------------------
(* Circuit::extract_gadgets: the shape of what it returns *)

\* The T gates of a circuit
TGates(gs) == {k \in 1..Len(gs) : gs[k].op = "Phase" /\ gs[k].p = PhaseT}

\* C30: for a CNOT+Phase block, the matrix Circuit::extract_gadgets returns
\* has no all-zero column, the block it leaves holds only CNOT and Phase(T)
\* gates, as many Phase(T) as the matrix has columns, and the correction it
\* returns holds only Clifford gates.
C30_NoZeroColumns ==
    pc = "extracted" =>
        /\ ~HasZeroColumns(matrix)
        /\ \A k \in 1..Len(gates) : gates[k].op = "CNOT" \/ k \in TGates(gates)
        /\ Cardinality(TGates(gates)) = Len(matrix.cols)
        /\ AllClifford(cliffords)

\* C30 witness: a block with CNOTs and two non-Clifford phases of which one
\* is not T, extracted into a matrix of two columns and a correction
C30_Witness ==
    /\ pc = "extracted"
    /\ CountOp(before, "CNOT") > 0
    /\ \E k \in 1..Len(before) :
          before[k].op = "Phase" /\ ~PhaseIsClifford(before[k].p) /\ before[k].p # PhaseT
    /\ Len(matrix.cols) = 2
    /\ cliffords # << >>
    /\ CountOp(gates, "CNOT") > 0

------------------------------------------------------------------------------
(* The gadget pattern synthesizer: what matches, what is emitted *)

ZeroCol(c) == \A l \in DOMAIN c : ~c[l]

\* Linear independence over GF(2) of two and of three columns
Independent2(a, b) == ~ZeroCol(a) /\ ~ZeroCol(b) /\ a # b

Independent3(a, b, c) ==
    /\ Independent2(a, b)
    /\ ~ZeroCol(c)
    /\ c # a
    /\ c # b
    /\ c # XorCol(a, b)

\* s lists the entries of t in some order
IsPermutation(s, t) ==
    /\ Len(s) = Len(t)
    /\ \E order \in Orderings(1..Len(t)) : \A k \in 1..Len(t) : s[k] = t[order[k]]

\* The CCZ pattern on seven columns and the CS pattern on three
CczPattern(cols) ==
    LET a == cols[1]
        b == cols[2]
        c == cols[3]
    IN  /\ Independent3(a, b, c)
        /\ IsPermutation(SubSeq(cols, 4, 7),
                         <<XorCol(a, b), XorCol(a, c), XorCol(b, c),
                           XorCol(XorCol(a, b), c)>>)

CsPattern(cols) ==
    /\ Independent2(cols[1], cols[2])
    /\ cols[3] = XorCol(cols[1], cols[2])

\* The columns a pass of the loop handed to a pattern of n columns
Slice(st, n) == SubSeq(matrix.cols, st.idx + 1, st.idx + n)

\* C22 as stated: every call of try_synth_ccz_gadget matches exactly on the
\* CCZ pattern (columns 0..2 independent, columns 3..6 a permutation of a^b,
\* a^c, b^c, a^b^c), every call of try_synth_cs_gadget exactly on the CS
\* pattern (columns 0, 1 independent, column 2 = a^b), and in every other
\* case, all-zero columns included, the call returns no match without
\* failing and emits nothing.
C22_Original ==
    pc = "synth" =>
        \A s \in 1..Len(circ1.steps) :
            LET st == circ1.steps[s]
            IN  /\ st.try_ccz =>
                      /\ ~st.ccz.panic
                      /\ st.ccz.matched <=> CczPattern(Slice(st, 7))
                      /\ ~st.ccz.matched => st.ccz.gates = << >>
                /\ st.try_cs =>
                      /\ ~st.cs.panic
                      /\ st.cs.matched <=> CsPattern(Slice(st, 3))
                      /\ ~st.cs.matched => st.cs.gates = << >>

\* C22 where the calls return: a call fails only when one of its leading
\* columns is all-zero, and a call that returns matches exactly on its
\* pattern and emits nothing otherwise.
C22_MatchWhenReturned ==
    pc = "synth" =>
        \A s \in 1..Len(circ1.steps) :
            LET st == circ1.steps[s]
            IN  /\ st.try_ccz =>
                      /\ st.ccz.panic => \E t \in 1..3 : ZeroCol(Slice(st, 7)[t])
                      /\ ~st.ccz.panic =>
                            (st.ccz.matched <=> CczPattern(Slice(st, 7)))
                      /\ ~st.ccz.matched => st.ccz.gates = << >>
                /\ st.try_cs =>
                      /\ st.cs.panic => \E t \in 1..2 : ZeroCol(Slice(st, 3)[t])
                      /\ ~st.cs.panic =>
                            (st.cs.matched <=> CsPattern(Slice(st, 3)))
                      /\ ~st.cs.matched => st.cs.gates = << >>

\* C22 witness: a run in which a CCZ call found no match, the CS call on
\* the same columns matched, and a later CS call found no match
C22_Witness ==
    /\ pc = "synth"
    /\ ~circ1.panic
    /\ \E s \in 1..Len(circ1.steps) :
          /\ circ1.steps[s].try_ccz
          /\ ~circ1.steps[s].ccz.matched
          /\ circ1.steps[s].cs.matched
    /\ \E s \in 1..Len(circ1.steps) :
          circ1.steps[s].try_cs /\ ~circ1.steps[s].cs.matched

\* The parity each qubit holds after the CNOTs of pairs from t on: a pair
\* <<p, q>> adds the parity of p to that of q
RECURSIVE ParitiesAfter(_, _, _)
ParitiesAfter(pairs, t, rows) ==
    IF t > Len(pairs) THEN rows
    ELSE LET nx == [rows EXCEPT ![pairs[t][2]] = XorCol(@, rows[pairs[t][1]])]
         IN  CASE nx = nx -> ParitiesAfter(pairs, t + 1, nx)

\* Every qubit holding its own input
StandardBasis(n) == [q \in 0..(n - 1) |-> [l \in 0..(n - 1) |-> l = q]]

\* What C23 asks of a matched call r on the columns cols
MatchedWell(r, cols) ==
    LET n == matrix.n
        np == Len(r.pairs)
        after == ParitiesAfter(r.pairs, 1, StandardBasis(n))
        piv == {r.pivots[t] : t \in 1..Len(r.pivots)}
    IN  /\ Cardinality(piv) = Len(r.pivots)
        /\ \A t \in 1..Len(r.pivots) : after[r.pivots[t]] = cols[t]
        /\ \A q \in (0..(n - 1)) \ piv : after[q] = StandardBasis(n)[q]
        /\ \A t \in 1..np :
              /\ r.gates[t] = CNOT(MapQ(map, r.pairs[t][1]), MapQ(map, r.pairs[t][2]))
              /\ r.gates[Len(r.gates) + 1 - t] = r.gates[t]
        /\ \A t \in (np + 1)..(Len(r.gates) - np) : r.gates[t].op # "CNOT"
        /\ Diagonal(r.gates, CircuitQubits(r.gates))

\* C23: when a pattern matches, the pivot rows are pairwise distinct, the
\* basis-change CNOTs applied in order to the standard basis leave qubit i
\* holding parity a, j parity b and, for CCZ, k parity c, every other qubit
\* holding its own input, and the CNOTs after the gadget are the reverse of
\* those before it, so the emitted circuit is diagonal.
C23_BasisChange ==
    pc = "synth" =>
        \A s \in 1..Len(circ1.steps) :
            LET st == circ1.steps[s]
            IN  /\ st.ccz.matched => MatchedWell(st.ccz, Slice(st, 7))
                /\ st.cs.matched => MatchedWell(st.cs, Slice(st, 3))

\* C23 witness: a CCZ match whose pivots needed CNOTs among themselves and
\* through a map that is not the identity
C23_Witness ==
    /\ pc = "synth"
    /\ map # [r \in 1..matrix.n |-> r - 1]
    /\ \E s \in 1..Len(circ1.steps) :
          /\ circ1.steps[s].ccz.matched
          /\ Len(circ1.steps[s].ccz.pairs) >= 3

\* The passes of a run go through the columns from left to right
LeftToRight(run, gadgets) ==
    /\ \A s \in 1..Len(run.steps) :
          LET st == run.steps[s]
          IN  /\ st.idx = IF s = 1 THEN 0
                          ELSE run.steps[s - 1].idx + Consumed(run.steps[s - 1].kind)
              /\ st.try_ccz <=> (gadgets /\ st.idx + 7 <= Len(matrix.cols))
              /\ st.kind = "ccz" <=> (st.try_ccz /\ st.ccz.matched)
              /\ st.try_cs <=>
                    (gadgets /\ st.idx + 3 <= Len(matrix.cols) /\ st.kind # "ccz")
              /\ st.kind = "cs" <=> (st.try_cs /\ st.cs.matched)
    /\ run.gates = Concat([s \in 1..Len(run.steps) |-> run.steps[s].gates])

\* C24 as stated: extract_gadgets goes through the columns left to right,
\* tries CCZ on 7 columns before CS on 3 before the single column, ends
\* with 7*nccz + 3*ncs + nt equal to the number of columns, and with
\* gadgets disabled counts no CCZ or CS and emits no CCZ, CS or CZ.
C24_Original ==
    pc = "synth" =>
        /\ ~circ1.panic
        /\ LeftToRight(circ1, TRUE)
        /\ 7 * circ1.nccz + 3 * circ1.ncs + circ1.nt = Len(matrix.cols)
        /\ ~circ2.panic
        /\ LeftToRight(circ2, FALSE)
        /\ 7 * circ2.nccz + 3 * circ2.ncs + circ2.nt = Len(matrix.cols)
        /\ circ2.nccz = 0
        /\ circ2.ncs = 0
        /\ \A k \in 1..Len(circ2.gates) : circ2.gates[k].op \notin {"CCZ", "CS", "CZ"}

\* C24 for the runs that return: the same, asked of the run with gadgets
\* enabled only when it did not fail.
C24_CountersWhenReturned ==
    pc = "synth" =>
        /\ ~circ1.panic =>
              /\ LeftToRight(circ1, TRUE)
              /\ 7 * circ1.nccz + 3 * circ1.ncs + circ1.nt = Len(matrix.cols)
        /\ ~circ2.panic
        /\ LeftToRight(circ2, FALSE)
        /\ 7 * circ2.nccz + 3 * circ2.ncs + circ2.nt = Len(matrix.cols)
        /\ circ2.nccz = 0
        /\ circ2.ncs = 0
        /\ \A k \in 1..Len(circ2.gates) : circ2.gates[k].op \notin {"CCZ", "CS", "CZ"}

\* C24 witness: seven columns consumed as one CS gadget and four single
\* columns with gadgets enabled, as seven single columns without
C24_Witness ==
    /\ pc = "synth"
    /\ Len(matrix.cols) = 7
    /\ ~circ1.panic
    /\ circ1.ncs = 1
    /\ circ1.nt = 4
    /\ circ2.nt = 7

------------------------------------------------------------------------------
(* The phase polynomial *)

\* The value on basis state x of the polynomial s stands for: s[i,i,i] on
\* x_i, s[i,j,j] on x_i x_j for i > j, s[i,j,k] on x_i x_j x_k for i > j > k
PolyValue(s, n, x) ==
    LET term == [t \in Idx(n) |->
                    IF \/ t[1] > t[2] /\ t[2] > t[3]
                       \/ t[1] > t[2] /\ t[2] = t[3]
                       \/ t[1] = t[2] /\ t[2] = t[3]
                    THEN s[t] * B2N(x[t[1]] /\ x[t[2]] /\ x[t[3]])
                    ELSE 0]
    IN  SumFn(term, Idx(n))

\* find_phase_polynomial(a) stands for the phase function of a
Represents(a) ==
    \A x \in BasisStates(a.n) :
        ColumnPhase(a, x) % 8 = PolyValue(FindPhasePolynomial(a), a.n, x) % 8

\* Every column of a is all-one
FullColumns(a) == \A l \in 1..Len(a.cols) : \A i \in 0..(a.n - 1) : a.cols[l][i]

\* C27 as stated: for every boolean matrix A the tensor s that
\* find_phase_polynomial returns stands for the phase function of A: on
\* every x the number of columns of parity 1 equals, mod 8, the sum of
\* s[i,i,i] x_i, s[i,j,j] x_i x_j (i > j) and s[i,j,k] x_i x_j x_k (i > j > k).
C27_Original ==
    pc = "corrected" => Represents(matrix) /\ Represents(orig)

\* C27 on the matrices of two or three rows whose columns are all-one:
\* there the tensor does stand for the phase function.
C27_FullColumns ==
    (pc = "corrected" /\ matrix.n >= 2 /\ FullColumns(matrix)) => Represents(matrix)

\* C27 witness: the polynomial of the three-row matrix with one all-one
\* column, which has a cubic term
C27_Witness ==
    /\ pc = "corrected"
    /\ matrix.n = 3
    /\ Len(matrix.cols) = 1
    /\ FullColumns(matrix)
    /\ FindPhasePolynomial(matrix)[<<2, 1, 0>>] # 0

------------------------------------------------------------------------------
(* resynth::main: the qubit mappings let through *)

HasRepeat(q) == \E i, j \in 1..Len(q) : i # j /\ q[i] = q[j]

HasAdjacentRepeat(q) == \E i \in 1..(Len(q) - 1) : q[i] = q[i + 1]

\* The inputs the first loop has gone through
Loaded == 1..(Len(invocation.files) - Len(files))

\* Input i passes every check of the first loop before the uniqueness check
ReachesUniqueness(i) ==
    LET f == invocation.files[i]
    IN  /\ f.matrix.some
        /\ f.orig.some => (f.orig.v.some /\ f.orig.v.v.n = f.matrix.v.n)
        /\ f.map.some
        /\ f.map.v.some
        /\ Len(f.map.v.v) = f.matrix.v.n

\* Input i was reported as not unique and skipped
SkippedNotUnique(i) ==
    /\ \E k \in 1..Len(report) : report[k] = [input |-> i, msg |-> "not unique"]
    /\ \A k \in 1..Len(values) : values[k].input # i
    /\ \A k \in 1..Len(written) : written[k].input # i

\* Input i passes every check of both loops
Sound(i) ==
    LET f == invocation.files[i]
    IN  /\ f.matrix.some
        /\ ~HasZeroColumns(f.matrix.v)
        /\ f.orig.some =>
              /\ f.orig.v.some
              /\ f.orig.v.v.n = f.matrix.v.n
              /\ FindSignatureTensor(f.orig.v.v) = FindSignatureTensor(f.matrix.v)
        /\ f.map.some =>
              /\ f.map.v.some
              /\ Len(f.map.v.v) = f.matrix.v.n
              /\ ~HasRepeat(f.map.v.v)

\* Every sound input had its circuit written
OthersProcessed ==
    pc = "done" =>
        \A i \in 1..Len(invocation.files) :
            Sound(i) => \E k \in 1..Len(written) : written[k].input = i

\* C28 as stated: an input whose qubit mapping has a repeated index,
\* adjacent or not, is reported as not unique and skipped, with no circuit
\* synthesized or written for it, and the other inputs are still processed.
C28_Original ==
    /\ \A i \in Loaded :
          (ReachesUniqueness(i) /\ HasRepeat(invocation.files[i].map.v.v))
              => SkippedNotUnique(i)
    /\ OthersProcessed

\* C28 for neighbours: an input whose qubit mapping has two equal
\* neighbouring indices is reported as not unique and skipped, and the
\* sound inputs are still processed.
C28_AdjacentRepeatsSkipped ==
    /\ \A i \in Loaded :
          (ReachesUniqueness(i) /\ HasAdjacentRepeat(invocation.files[i].map.v.v))
              => SkippedNotUnique(i)
    /\ OthersProcessed

\* C28 witness: a run that skipped the mapping [0, 0, 1] of its first input
\* and wrote the circuit of its second
C28_Witness ==
    /\ pc = "done"
    /\ Len(invocation.files) = 2
    /\ ReachesUniqueness(1)
    /\ invocation.files[1].map.v.v = <<0, 0, 1>>
    /\ SkippedNotUnique(1)
    /\ \E k \in 1..Len(written) : written[k].input = 2

====
